---- MODULE Spec2Model ----
(***************************************************************************)
(* Document processing of the blog admin tool: the format dispatcher       *)
(* (processDocument), the markup normalizer (cleanHtml) and its helpers,   *)
(* modelled from src/src/lib/document-processor.ts.                        *)
(*                                                                         *)
(* Strings are TLA+ strings; a character is a string of length one.  The   *)
(* regular-expression passes of the source are operators that scan the     *)
(* string position by position with the matching rules of the JavaScript   *)
(* regular expression they stand for (leftmost match, greedy or lazy       *)
(* quantifiers, the g and i flags).  The documents of the model are ASCII  *)
(* strings, and their white space is the space, the tab, the line feed and  *)
(* the carriage return.                                                     *)
(***************************************************************************)
EXTENDS Integers, Sequences, FiniteSets, TLC

----------------------------------------------------------------------------
(* Characters and character classes *)

\* the character of s at position i, "" when i is outside s
CharAt(s, i) == IF i >= 1 /\ i <= Len(s) THEN SubSeq(s, i, i) ELSE ""

\* \s of a regular expression, and the characters String.prototype.trim removes
WS == {" ", "\t", "\n", "\r"}

\* \d
Digits == {"0", "1", "2", "3", "4", "5", "6", "7", "8", "9"}

LowerLetters ==
  {"a", "b", "c", "d", "e", "f", "g", "h", "i", "j", "k", "l", "m",
   "n", "o", "p", "q", "r", "s", "t", "u", "v", "w", "x", "y", "z"}

UpperToLower ==
  [A |-> "a", B |-> "b", C |-> "c", D |-> "d", E |-> "e", F |-> "f", G |-> "g",
   H |-> "h", I |-> "i", J |-> "j", K |-> "k", L |-> "l", M |-> "m", N |-> "n",
   O |-> "o", P |-> "p", Q |-> "q", R |-> "r", S |-> "s", T |-> "t", U |-> "u",
   V |-> "v", W |-> "w", X |-> "x", Y |-> "y", Z |-> "z"]

\* \w
WordChars == LowerLetters \cup DOMAIN UpperToLower \cup Digits \cup {"_"}

\* the i flag: a character compared without regard to case
LowerChar(c) == IF c \in DOMAIN UpperToLower THEN UpperToLower[c] ELSE c

\* String.prototype.toLowerCase
RECURSIVE ToLower(_)
ToLower(s) ==
  IF s = "" THEN "" ELSE LowerChar(CharAt(s, 1)) \o ToLower(SubSeq(s, 2, Len(s)))

\* the least element of a non-empty set of positions, 0 for the empty set
First(S) == IF S = {} THEN 0 ELSE CHOOSE x \in S : \A y \in S : x <= y

\* the literal lit stands in s at position i
LitAt(s, i, lit) ==
  /\ i >= 1
  /\ i + Len(lit) - 1 <= Len(s)
  /\ SubSeq(s, i, i + Len(lit) - 1) = lit

\* the same under the i flag (lit is written in lower case)
LitAtCI(s, i, lit) ==
  /\ i >= 1
  /\ i + Len(lit) - 1 <= Len(s)
  /\ LowerChar(CharAt(s, i)) = CharAt(lit, 1)
  /\ ToLower(SubSeq(s, i, i + Len(lit) - 1)) = lit

\* least j >= i at which lit stands in s, 0 when there is none
IndexFrom(s, lit, i) == First({j \in i..Len(s) : LitAt(s, j, lit)})

IndexFromCI(s, lit, i) == First({j \in i..Len(s) : LitAtCI(s, j, lit)})

Contains(s, lit) == IndexFrom(s, lit, 1) > 0

\* a greedy class*: the least j >= i with j past the end or s[j] outside class
SkipClass(s, i, class) ==
  First({j \in i..(Len(s) + 1) : CharAt(s, j) \notin class})

\* a greedy negated class*: the least j >= i with j past the end or s[j] in class
SkipUntil(s, i, class) ==
  First({j \in i..(Len(s) + 1) : j > Len(s) \/ CharAt(s, j) \in class})

\* [\s]*
SkipWs(s, i) == SkipClass(s, i, WS)

\* s cut at position i: everything from i on is dropped (i = 0: no match, s kept)
CutAt(s, i) == IF i = 0 THEN s ELSE SubSeq(s, 1, i - 1)

\* String.prototype.trim
Trim(s) ==
  LET keep == {j \in 1..Len(s) : CharAt(s, j) \notin WS}
  IN  IF keep = {} THEN ""
      ELSE SubSeq(s, First(keep), CHOOSE x \in keep : \A y \in keep : y <= x)

----------------------------------------------------------------------------
(* cleanHtml, step 1: the meta sections at the end (lines 79-112) *)

\* /<hr[^>]*>[\s\S]*$/gi: where the first <hr ...> starts, 0 when there is none
HrMatch(s) ==
  LET i == IndexFromCI(s, "<hr", 1)
  IN  IF i > 0 /\ IndexFrom(s, ">", i + 3) > 0 THEN i ELSE 0

\* line 84 left out
KeepFromHr(s) == s

\* line 84
RemoveFromHr(s) == CutAt(s, HrMatch(s))

metaHeadings ==
  << "meta information", "meta info", "article meta", "post meta",
     "seo information", "seo info", "seo details", "seo",
     "metadata", "meta data", "article information",
     "keywords", "tags", "categories",
     "notes", "internal notes", "editor notes",
     "---" >>

\* heading.replace(/\s+/g, '\\s*'): the words of the heading, which the
\* pattern joins with \s*
RECURSIVE HeadingWords(_)
HeadingWords(heading) ==
  LET a == SkipWs(heading, 1)
      b == SkipUntil(heading, a, WS)
  IN  IF a > Len(heading) THEN <<>>
      ELSE <<SubSeq(heading, a, b - 1)>> \o HeadingWords(SubSeq(heading, b, Len(heading)))

\* the heading's pattern matched at position i: the position after it, 0 when
\* it does not match
RECURSIVE MatchHeading(_, _, _)
MatchHeading(s, i, words) ==
  IF words = <<>> THEN i
  ELSE IF ~LitAtCI(s, i, Head(words)) THEN 0
  ELSE IF Len(words) = 1 THEN i + Len(Head(words))
  ELSE MatchHeading(s, SkipWs(s, i + Len(Head(words))), Tail(words))

\* [\s]*:?[\s]* from position i: the position after it
HeadingTail(s, i) ==
  LET a == SkipWs(s, i)
      b == IF CharAt(s, a) = ":" THEN a + 1 ELSE a
  IN  SkipWs(s, b)

\* <p[^>]*>[\s]*HEADING[\s]*:?[\s]*<\/p> matches at position i
pPatternAt(s, i, words) ==
  /\ LitAtCI(s, i, "<p")
  /\ LET g == IndexFrom(s, ">", i + 2)
     IN  /\ g > 0
         /\ LET m == MatchHeading(s, SkipWs(s, g + 1), words)
            IN  m > 0 /\ LitAtCI(s, HeadingTail(s, m), "</p>")

\* <h\d[^>]*>[\s]*HEADING[\s]*:?[\s]*<\/h\d> matches at position i
hPatternAt(s, i, words) ==
  /\ LitAtCI(s, i, "<h")
  /\ CharAt(s, i + 2) \in Digits
  /\ LET g == IndexFrom(s, ">", i + 3)
     IN  /\ g > 0
         /\ LET m == MatchHeading(s, SkipWs(s, g + 1), words)
                t == HeadingTail(s, m)
            IN  /\ m > 0
                /\ LitAtCI(s, t, "</h")
                /\ CharAt(s, t + 3) \in Digits
                /\ CharAt(s, t + 4) = ">"

\* <p[^>]*>[\s]*<(?:strong|b)>[\s]*HEADING[\s]*:?[\s]*<\/(?:strong|b)> matches
\* at position i
bPatternAt(s, i, words) ==
  /\ LitAtCI(s, i, "<p")
  /\ LET g == IndexFrom(s, ">", i + 2)
         k == SkipWs(s, g + 1)
         o == IF LitAtCI(s, k, "<strong>") THEN k + 8
              ELSE IF LitAtCI(s, k, "<b>") THEN k + 3 ELSE 0
     IN  /\ g > 0
         /\ o > 0
         /\ LET m == MatchHeading(s, SkipWs(s, o), words)
                t == HeadingTail(s, m)
            IN  m > 0 /\ (LitAtCI(s, t, "</strong>") \/ LitAtCI(s, t, "</b>"))

\* the leftmost match of each pattern (the rest of the pattern, [\s\S]*$,
\* takes everything after it), 0 when there is none
pPattern(s, words) ==
  First({i \in 1..Len(s) : CharAt(s, i) = "<" /\ pPatternAt(s, i, words)})

hPattern(s, words) ==
  First({i \in 1..Len(s) : CharAt(s, i) = "<" /\ hPatternAt(s, i, words)})

bPattern(s, words) ==
  First({i \in 1..Len(s) : CharAt(s, i) = "<" /\ bPatternAt(s, i, words)})

\* the words of each heading of metaHeadings
metaHeadingWords ==
  [k \in 1..Len(metaHeadings) |-> HeadingWords(metaHeadings[k])]

\* lines 98-99, 102-103 and 106-107: cleaned = cleaned.replace(pattern, '')
RemoveFromParagraph(s, words) == CutAt(s, pPattern(s, words))

RemoveFromHeading(s, words) == CutAt(s, hPattern(s, words))

RemoveFromBold(s, words) == CutAt(s, bPattern(s, words))

\* the loop's turn without its third pattern (lines 106-107 left out)
RemoveMetaHeadingUnlessBold(s, words) ==
  RemoveFromHeading(RemoveFromParagraph(s, words), words)

\* one turn of the loop over metaHeadings (lines 96-108), for the heading of
\* these words
RemoveMetaHeading(s, words) ==
  RemoveFromBold(RemoveFromHeading(RemoveFromParagraph(s, words), words), words)

\* the loop of lines 96-108 from the k-th heading on, s being the string
\* after the turn before; nothing is left to cut from an empty string
RECURSIVE RemoveMetaHeadings(_, _)
RECURSIVE RemoveNextMetaHeadings(_, _)
RemoveNextMetaHeadings(s, k) ==
  IF s = "" THEN "" ELSE RemoveMetaHeadings(s, k)

RemoveMetaHeadings(s, k) ==
  IF k > Len(metaHeadings) THEN s
  ELSE RemoveNextMetaHeadings(RemoveMetaHeading(s, metaHeadingWords[k]), k + 1)

\* /[-_=]{3,}/ or /\*{3,}/: where the leftmost run of three characters of
\* class starts, 0 when there is none
SeparatorMatch(s, class) ==
  First({i \in 1..Len(s) :
           /\ CharAt(s, i) \in class
           /\ CharAt(s, i + 1) \in class
           /\ CharAt(s, i + 2) \in class})

\* lines 111 and 112
RemoveFromSeparator(s, class) == CutAt(s, SeparatorMatch(s, class))

\* step 1 as a whole: the string after line 112
RemoveMetaSections(html) ==
  RemoveFromSeparator(
    RemoveFromSeparator(RemoveNextMetaHeadings(RemoveFromHr(html), 1), {"-", "_", "="}),
    {"*"})

----------------------------------------------------------------------------
(* The patterns of the global replacements.  XEnd(s, i) is the position of  *)
(* the last character of the pattern's match that starts at position i, 0   *)
(* when the pattern does not match there.                                   *)

\* /OPEN[\s\S]*?CLOSE/, under the i flag when ci: OPEN and everything up to
\* the first CLOSE after it
LazyEnd(s, i, open, close, ci) ==
  LET hit == IF ci THEN LitAtCI(s, i, open) ELSE LitAt(s, i, open)
      e == IF ci THEN IndexFromCI(s, close, i + Len(open))
           ELSE IndexFrom(s, close, i + Len(open))
  IN  IF hit /\ e > 0 THEN e + Len(close) - 1 ELSE 0

Quotes == {"\"", "'"}

\* href=["']([^"']*)["'][^>]*> matches at position p: <<q, e>>, the closing
\* quote and the closing > of the match, <<0, 0>> when it does not match
HrefAt(s, p) ==
  IF ~(LitAtCI(s, p, "href=") /\ CharAt(s, p + 5) \in Quotes) THEN <<0, 0>>
  ELSE LET q == SkipUntil(s, p + 6, Quotes)
           e == IndexFrom(s, ">", q + 1)
       IN  IF q <= Len(s) /\ e > 0 THEN <<q, e>> ELSE <<0, 0>>

\* /<a\s+[^>]*href=["']([^"']*)["'][^>]*>/i at position i: where its href=
\* starts, 0 when the pattern does not match.  [^>]* is greedy, so it is the
\* last href= before the first > that completes the match
AnchorHref(s, i) ==
  IF ~(LitAtCI(s, i, "<a") /\ CharAt(s, i + 2) \in WS) THEN 0
  ELSE LET g == IndexFrom(s, ">", i + 3)
           hi == IF g > 0 THEN g ELSE Len(s)
           ps == {p \in (i + 3)..hi : HrefAt(s, p)[1] > 0}
       IN  IF ps = {} THEN 0 ELSE CHOOSE p \in ps : \A x \in ps : x <= p

AnchorEnd(s, i) ==
  LET p == AnchorHref(s, i) IN IF p > 0 THEN HrefAt(s, p)[2] ELSE 0

\* '<a href="$1">'
AnchorReplacement(s, i) ==
  LET p == AnchorHref(s, i)
  IN  "<a href=\"" \o SubSeq(s, p + 6, HrefAt(s, p)[1] - 1) \o "\">"

\* the alternatives of line 129, h[1-6] written out
AttributeTags ==
  {"p", "h1", "h2", "h3", "h4", "h5", "h6", "strong", "b", "em", "i",
   "ul", "ol", "li", "br", "div", "span"}

\* /<(p|h[1-6]|strong|b|em|i|ul|ol|li|br|div|span)\s+[^>]*>/i at position i:
\* the length of the name it matches, 0 when it does not match.  The name is
\* followed by white space, so one alternative at most matches
AttributeTagName(s, i) ==
  LET names == IF CharAt(s, i) # "<" THEN {}
               ELSE {n \in AttributeTags :
                       /\ LitAtCI(s, i + 1, n)
                       /\ CharAt(s, i + 1 + Len(n)) \in WS
                       /\ IndexFrom(s, ">", i + 2 + Len(n)) > 0}
  IN  IF names = {} THEN 0 ELSE Len(CHOOSE n \in names : TRUE)

AttributeTagEnd(s, i) ==
  LET n == AttributeTagName(s, i)
  IN  IF n > 0 THEN IndexFrom(s, ">", i + 2 + n) ELSE 0

\* '<$1>'
AttributeTagReplacement(s, i) ==
  "<" \o SubSeq(s, i + 1, i + AttributeTagName(s, i)) \o ">"

\* /PREFIX[^>]*>/i
OpenTagEnd(s, i, prefix) ==
  IF LitAtCI(s, i, prefix) THEN IndexFrom(s, ">", i + Len(prefix)) ELSE 0

\* a literal, under the i flag when ci
LitEnd(s, i, lit, ci) ==
  IF (IF ci THEN LitAtCI(s, i, lit) ELSE LitAt(s, i, lit)) THEN i + Len(lit) - 1 ELSE 0

allowedTags ==
  {"p", "h1", "h2", "h3", "h4", "h5", "h6", "strong", "b", "em", "i",
   "ul", "ol", "li", "br", "a"}

\* tagPattern /<\/?([a-z][a-z0-9]*)\b[^>]*>/i matches at position i:
\* <<j, k, e>>, the name is s[j..k-1] and the closing > is at e; <<0, 0, 0>>
\* when it does not match
TagAt(s, i) ==
  LET j == IF CharAt(s, i + 1) = "/" THEN i + 2 ELSE i + 1
      k == SkipClass(s, j + 1, WordChars \ {"_"})
      e == IndexFrom(s, ">", k)
  IN  IF /\ CharAt(s, i) = "<"
         /\ LowerChar(CharAt(s, j)) \in LowerLetters
         /\ CharAt(s, k) \notin WordChars
         /\ e > 0
      THEN <<j, k, e>> ELSE <<0, 0, 0>>

\* the callback of lines 140-145: an allowed tag stays as it is written, any
\* other tag is dropped
TagReplacement(s, i) ==
  LET m == TagAt(s, i)
  IN  IF ToLower(SubSeq(s, m[1], m[2] - 1)) \in allowedTags
      THEN SubSeq(s, i, m[3]) ELSE ""

\* /[ \t]+/
SpacesEnd(s, i) ==
  IF CharAt(s, i) \in {" ", "\t"} THEN SkipClass(s, i, {" ", "\t"}) - 1 ELSE 0

\* />\s+/
AfterTagEnd(s, i) ==
  IF CharAt(s, i) = ">" /\ CharAt(s, i + 1) \in WS THEN SkipWs(s, i + 1) - 1 ELSE 0

\* /\s+</
BeforeTagEnd(s, i) ==
  IF CharAt(s, i) \in WS /\ CharAt(s, SkipWs(s, i)) = "<" THEN SkipWs(s, i) ELSE 0

\* /<p>\s*<\/p>/i
BlankParagraphEnd(s, i) ==
  IF LitAtCI(s, i, "<p>") /\ LitAtCI(s, SkipWs(s, i + 3), "</p>")
  THEN SkipWs(s, i + 3) + 3 ELSE 0

\* <br\s*\/?>\s* matches at position i: the position after it, 0 when it does not
BrAt(s, i) ==
  LET a == SkipWs(s, i + 3)
      b == IF CharAt(s, a) = "/" THEN a + 1 ELSE a
  IN  IF LitAtCI(s, i, "<br") /\ CharAt(s, b) = ">" THEN SkipWs(s, b + 1) ELSE 0

\* (<br\s*\/?>\s*)* from position i, n repetitions matched so far: <<n, end>>
RECURSIVE BrRun(_, _, _)
BrRun(s, i, n) ==
  IF BrAt(s, i) > 0 THEN BrRun(s, BrAt(s, i), n + 1) ELSE <<n, i>>

\* /(<br\s*\/?>\s*){3,}/i
BreaksEnd(s, i) ==
  LET r == IF CharAt(s, i) = "<" THEN BrRun(s, i, 0) ELSE <<0, i>>
  IN  IF r[1] >= 3 THEN r[2] - 1 ELSE 0

\* (<\/p>\s*<p>)* from position i: the position after it
RECURSIVE BoundaryRun(_, _)
BoundaryRun(s, i) ==
  IF LitAtCI(s, i, "</p>") /\ LitAtCI(s, SkipWs(s, i + 4), "<p>")
  THEN BoundaryRun(s, SkipWs(s, i + 4) + 3) ELSE i

\* /(<\/p>\s*<p>)+/i
BoundariesEnd(s, i) ==
  LET e == IF CharAt(s, i) = "<" THEN BoundaryRun(s, i) ELSE i
  IN  IF e > i THEN e - 1 ELSE 0

\* /<\/h(\d)><p>/
HeadingParagraphEnd(s, i) ==
  IF LitAt(s, i, "</h") /\ CharAt(s, i + 3) \in Digits /\ LitAt(s, i + 4, "><p>")
  THEN i + 7 ELSE 0

\* /<\/p><h(\d)>/
ParagraphHeadingEnd(s, i) ==
  IF LitAt(s, i, "</p><h") /\ CharAt(s, i + 6) \in Digits /\ CharAt(s, i + 7) = ">"
  THEN i + 7 ELSE 0

\* /<[^>]+>/
AnyTagEnd(s, i) ==
  IF CharAt(s, i) = "<" /\ CharAt(s, i + 1) \notin {">", ""}
  THEN IndexFrom(s, ">", i + 2) ELSE 0

\* the pattern pat at position i.  A pattern is a record: its kind, and for
\* the kinds that take them a literal (lit, close), the i flag (ci) and the
\* replacement (repl)
MatchEnd(s, pat, i) ==
  CASE pat.kind = "lazy" -> LazyEnd(s, i, pat.lit, pat.close, pat.ci)
    [] pat.kind = "anchor" -> AnchorEnd(s, i)
    [] pat.kind = "attributes" -> AttributeTagEnd(s, i)
    [] pat.kind = "open" -> OpenTagEnd(s, i, pat.lit)
    [] pat.kind = "lit" -> LitEnd(s, i, pat.lit, pat.ci)
    [] pat.kind = "tag" -> TagAt(s, i)[3]
    [] pat.kind = "spaces" -> SpacesEnd(s, i)
    [] pat.kind = "afterTag" -> AfterTagEnd(s, i)
    [] pat.kind = "beforeTag" -> BeforeTagEnd(s, i)
    [] pat.kind = "blankParagraph" -> BlankParagraphEnd(s, i)
    [] pat.kind = "breaks" -> BreaksEnd(s, i)
    [] pat.kind = "boundaries" -> BoundariesEnd(s, i)
    [] pat.kind = "headingParagraph" -> HeadingParagraphEnd(s, i)
    [] pat.kind = "paragraphHeading" -> ParagraphHeadingEnd(s, i)
    [] pat.kind = "anyTag" -> AnyTagEnd(s, i)

\* what the match of pat at position i is replaced by
Replacement(s, pat, i) ==
  CASE pat.kind = "anchor" -> AnchorReplacement(s, i)
    [] pat.kind = "attributes" -> AttributeTagReplacement(s, i)
    [] pat.kind = "tag" -> TagReplacement(s, i)
    [] pat.kind = "headingParagraph" -> "</h" \o CharAt(s, i + 3) \o ">\n\n<p>"
    [] pat.kind = "paragraphHeading" -> "</p>\n\n<h" \o CharAt(s, i + 6) \o ">"
    [] OTHER -> pat.repl

\* String.prototype.replace with a pattern that carries the g flag, from
\* position i on: the matches are taken from left to right, each search
\* starting after the match before it, and what is put in is not searched again
RECURSIVE ReplaceFrom(_, _, _, _)
ReplaceFrom(s, pat, matches, i) ==
  LET j == First({m \in matches : m >= i})
  IN  IF j = 0 THEN SubSeq(s, i, Len(s))
      ELSE SubSeq(s, i, j - 1) \o Replacement(s, pat, j)
             \o ReplaceFrom(s, pat, matches, MatchEnd(s, pat, j) + 1)

ReplaceAll(s, pat) ==
  ReplaceFrom(s, pat, {i \in 1..Len(s) : MatchEnd(s, pat, i) > 0}, 1)

Lit(lit, repl, ci) == [kind |-> "lit", lit |-> lit, ci |-> ci, repl |-> repl]
OpenTag(lit, repl) == [kind |-> "open", lit |-> lit, repl |-> repl]
Lazy(lit, close, ci) == [kind |-> "lazy", lit |-> lit, close |-> close, ci |-> ci, repl |-> ""]
Kind(kind, repl) == [kind |-> kind, repl |-> repl]

\* a run of replacements, cleaned = cleaned.replace(...) one after the other,
\* from the k-th on; nothing is left to replace in an empty string
RECURSIVE ApplyPasses(_, _, _)
RECURSIVE ApplyNextPasses(_, _, _)
ApplyNextPasses(s, passes, k) ==
  IF s = "" THEN "" ELSE ApplyPasses(s, passes, k)

ApplyPasses(s, passes, k) ==
  IF k > Len(passes) THEN s
  ELSE ApplyNextPasses(ReplaceAll(s, passes[k]), passes, k + 1)

----------------------------------------------------------------------------
(* cleanHtml, step 2: only the allowed tags stay (lines 114-145) *)

allowListPasses ==
  << Lazy("<script", "</script>", TRUE),     \* line 118
     Lazy("<style", "</style>", TRUE),       \* line 119
     Lazy("<!--", "-->", FALSE),             \* line 122
     Kind("anchor", ""),                     \* line 126
     Kind("attributes", ""),                 \* line 129
     OpenTag("<div", "<p>"),                 \* line 132
     Lit("</div>", "</p>", TRUE),            \* line 133
     OpenTag("<span", ""),                   \* line 134
     Lit("</span>", "", TRUE),               \* line 135
     Kind("tag", "") >>                      \* lines 138-145

\* step 2 as a whole: the string after line 145
KeepAllowedTags(s) == ApplyNextPasses(s, allowListPasses, 1)

----------------------------------------------------------------------------
(* cleanHtml, steps 3 and 4: white space (lines 147-176) *)

whitespacePasses ==
  << Kind("spaces", " "),                    \* line 149
     Kind("afterTag", ">"),                  \* line 152
     Kind("beforeTag", "<"),                 \* line 153
     Lit("<p></p>", "", TRUE),               \* line 156
     Kind("blankParagraph", ""),             \* line 157
     Kind("breaks", "<br><br>"),             \* line 160
     Kind("boundaries", "</p><p>"),          \* line 163
     Lit("</p><p>", "</p>\n\n<p>", FALSE),   \* line 166
     Kind("headingParagraph", ""),           \* line 167
     Kind("paragraphHeading", "") >>         \* line 168

\* /^[^<]*/ -> ''  (line 172)
RemoveLeadingText(s) ==
  LET i == IndexFrom(s, "<", 1)
  IN  IF i = 0 THEN "" ELSE SubSeq(s, i, Len(s))

\* steps 3 and 4 as a whole: lines 147-175
CleanWhitespace(s) ==
  Trim(RemoveLeadingText(ApplyNextPasses(s, whitespacePasses, 1)))

\* cleanHtml (lines 78-176)
cleanHtml(html) == CleanWhitespace(KeepAllowedTags(RemoveMetaSections(html)))

----------------------------------------------------------------------------
(* cleanGoogleDocsHtml (lines 37-58) and processMarkdown (lines 72-76) *)

\* the last position at which lit stands in s under the i flag, 0 when there
\* is none
LastIndexCI(s, lit) ==
  LET hits == {j \in 1..Len(s) : LitAtCI(s, j, lit)}
  IN  IF hits = {} THEN 0 ELSE CHOOSE j \in hits : \A x \in hits : x <= j

\* content.match(/<body[^>]*>([\s\S]*)<\/body>/i): <<g, e>>, the > of the
\* first <body and the last </body>, <<0, 0>> when there is no match
BodyMatch(s) ==
  LET i == IndexFromCI(s, "<body", 1)
      g == IF i > 0 THEN IndexFrom(s, ">", i + 5) ELSE 0
      e == LastIndexCI(s, "</body>")
  IN  IF g > 0 /\ e > g THEN <<g, e>> ELSE <<0, 0>>

\* lines 43-46: bodyMatch[1] when the pattern matches
ExtractBody(s) ==
  IF BodyMatch(s)[1] = 0 THEN s
  ELSE SubSeq(s, BodyMatch(s)[1] + 1, BodyMatch(s)[2] - 1)

\* class="[^"]*WORD[^"]*"[^>]*> matches at position c: the position of its >,
\* 0 when it does not match
ClassAt(s, c, word) ==
  IF ~LitAtCI(s, c, "class=\"") THEN 0
  ELSE LET q == IndexFrom(s, "\"", c + 7)
           w == IndexFromCI(s, word, c + 7)
       IN  IF q > 0 /\ w > 0 /\ w + Len(word) <= q THEN IndexFrom(s, ">", q + 1) ELSE 0

\* OPEN[^>]*class="[^"]*WORD[^"]*"[^>]*> matches at position i: the position
\* of its >, 0 when it does not match.  [^>]* is greedy: the last class=" that
\* no > stands before completes the match
ClassTagEnd(s, i, open, word) ==
  IF ~LitAtCI(s, i, open) THEN 0
  ELSE LET g == IndexFrom(s, ">", i + Len(open))
           hi == IF g > 0 THEN g ELSE Len(s)
           cs == {c \in (i + Len(open))..hi : ClassAt(s, c, word) > 0}
       IN  IF cs = {} THEN 0
           ELSE ClassAt(s, CHOOSE c \in cs : \A x \in cs : x <= c, word)

\* OPEN[^>]*class="[^"]*WORD[^"]*"[^>]*>[\s\S]*?CLOSE matches at position i:
\* the position of its last character, 0 when it does not match
ClassElementEnd(s, i, open, word, close) ==
  LET g == ClassTagEnd(s, i, open, word)
      e == IF g > 0 THEN IndexFromCI(s, close, g + 1) ELSE 0
  IN  IF e > 0 THEN e + Len(close) - 1 ELSE 0

\* s.replace(pattern, '') for the patterns of lines 50, 51 and 54, from
\* position i on (close is "" for the pattern of line 54, which ends with
\* the tag)
RECURSIVE RemoveClassFrom(_, _, _, _, _)
RemoveClassFrom(s, i, open, word, close) ==
  LET j == First({m \in i..Len(s) :
                    IF close = "" THEN ClassTagEnd(s, m, open, word) > 0
                    ELSE ClassElementEnd(s, m, open, word, close) > 0})
      e == IF close = "" THEN ClassTagEnd(s, j, open, word)
           ELSE ClassElementEnd(s, j, open, word, close)
  IN  IF j = 0 THEN SubSeq(s, i, Len(s))
      ELSE SubSeq(s, i, j - 1) \o RemoveClassFrom(s, e + 1, open, word, close)

\* lines 50, 51 and 54
RemoveTitleParagraphs(s) == RemoveClassFrom(s, 1, "<p", "title", "</p>")

RemoveTitleHeadings(s) == RemoveClassFrom(s, 1, "<h1", "title", "</h1>")

RemoveDocContentDivs(s) == RemoveClassFrom(s, 1, "<div", "doc-content", "")

\* cleanGoogleDocsHtml (lines 37-58)
cleanGoogleDocsHtml(html) ==
  cleanHtml(RemoveDocContentDivs(RemoveTitleHeadings(RemoveTitleParagraphs(ExtractBody(html)))))

\* the same with a greedy [\s\S]*: the match ends with the last \n---\n
FrontmatterEndGreedy(s) ==
  LET S == {j \in 5..Len(s) : LitAt(s, j, "\n---\n")}
  IN  IF LitAt(s, 1, "---\n") /\ S # {}
      THEN (CHOOSE j \in S : \A k \in S : k <= j) + 4 ELSE 0

\* /^---\n[\s\S]*?\n---\n/: the position of the last character of the match,
\* 0 when there is none
FrontmatterEnd(s) ==
  LET e == IndexFrom(s, "\n---\n", 5)
  IN  IF LitAt(s, 1, "---\n") /\ e > 0 THEN e + 4 ELSE 0

\* the frontmatter left where it is
KeepFrontmatter(s) == s

\* content.replace(frontmatterRegex, '')
StripFrontmatter(s) == SubSeq(s, FrontmatterEnd(s) + 1, Len(s))

\* processMarkdown (lines 72-76)
processMarkdown(content) == Trim(StripFrontmatter(content))

\* String.prototype.endsWith
EndsWith(s, suffix) ==
  Len(s) >= Len(suffix) /\ SubSeq(s, Len(s) - Len(suffix) + 1, Len(s)) = suffix

----------------------------------------------------------------------------
(* extractTitleFromContent (lines 187-221) *)

\* null, and a value that is not null
Null == <<>>
Some(v) == <<v>>

\* /<NAME[^>]*>([\s\S]*?)<\/NAME>/i matches at position i: <<g, e>>, the > of
\* the open tag and the < of the closing tag; <<0, 0>> when it does not match
HeadingAt(s, i, name) ==
  IF ~LitAtCI(s, i, "<" \o name) THEN <<0, 0>>
  ELSE LET g == IndexFrom(s, ">", i + Len(name) + 1)
           e == IF g = 0 THEN 0 ELSE IndexFromCI(s, "</" \o name \o ">", g + 1)
       IN  IF e = 0 THEN <<0, 0>> ELSE <<g, e>>

\* the match of the pattern at position i: match[0] and match[1]
HeadingMatchAt(s, i, name) ==
  [ whole |-> SubSeq(s, i, HeadingAt(s, i, name)[2] + Len(name) + 2),
    inner |-> SubSeq(s, HeadingAt(s, i, name)[1] + 1, HeadingAt(s, i, name)[2] - 1) ]

\* where html.match(pattern) finds its match: the leftmost position, 0 for null
HeadingIndex(s, name) ==
  First({i \in 1..Len(s) : HeadingAt(s, i, name)[2] > 0})

\* html.match(/<NAME[^>]*>([\s\S]*?)<\/NAME>/i) (lines 189 and 190)
HeadingMatch(s, name) ==
  IF HeadingIndex(s, name) = 0 THEN Null
  ELSE Some(HeadingMatchAt(s, HeadingIndex(s, name), name))

\* h2Match in the place of h1Match || h2Match
PreferH2(h1Match, h2Match) == IF h2Match # Null THEN h2Match ELSE h1Match

\* h1Match || h2Match (line 193)
PreferH1(h1Match, h2Match) == IF h1Match # Null THEN h1Match ELSE h2Match

\* the replacements without the one of line 207
titlePassesWithoutAmp ==
  << Kind("anyTag", ""),
     Lit("&nbsp;", " ", FALSE),
     Lit("&lt;", "<", FALSE),
     Lit("&gt;", ">", FALSE),
     Lit("&quot;", "\"", FALSE),
     Lit("&#39;", "'", FALSE) >>

\* the replacements of lines 205-211, one after the other
titlePasses ==
  << Kind("anyTag", ""),
     Lit("&nbsp;", " ", FALSE),
     Lit("&amp;", "&", FALSE),
     Lit("&lt;", "<", FALSE),
     Lit("&gt;", ">", FALSE),
     Lit("&quot;", "\"", FALSE),
     Lit("&#39;", "'", FALSE) >>

\* lines 204-212: the title of the heading whose inner markup is titleHtml
TitleText(titleHtml) == Trim(ApplyNextPasses(titleHtml, titlePasses, 1))

\* every occurrence of lit taken out of s
RemoveEvery(s, lit) == ReplaceAll(s, Lit(lit, "", FALSE))

\* s.replace(lit, ''), lit a string: its first occurrence is taken out
RemoveFirst(s, lit) ==
  IF IndexFrom(s, lit, 1) = 0 THEN s
  ELSE SubSeq(s, 1, IndexFrom(s, lit, 1) - 1)
         \o SubSeq(s, IndexFrom(s, lit, 1) + Len(lit), Len(s))

\* the title as it is, empty or not
KeepEmpty(s) == Some(s)

\* title || null (line 218)
OrNull(s) == IF s = "" THEN Null ELSE Some(s)

\* lines 202-220: a heading was matched
TitleOfMatch(html, match) ==
  [ title |-> OrNull(TitleText(match.inner)),
    contentWithoutTitle |-> Trim(RemoveFirst(html, match.whole)) ]

\* the input trimmed also when no heading was matched
TitleOfTrimmed(html, match) ==
  IF match = Null THEN [title |-> Null, contentWithoutTitle |-> Trim(html)]
  ELSE TitleOfMatch(html, match[1])

\* lines 193-220
TitleOf(html, match) ==
  IF match = Null THEN [title |-> Null, contentWithoutTitle |-> html]
  ELSE TitleOfMatch(html, match[1])

extractTitleFromContent(html) ==
  TitleOf(html, PreferH1(HeadingMatch(html, "h1"), HeadingMatch(html, "h2")))

----------------------------------------------------------------------------
(* extractFrontmatter (lines 223-242) *)

\* /^---\n([\s\S]*?)\n---/: where the closing \n--- starts, 0 when there is
\* no match
FrontmatterClose(s) ==
  IF LitAt(s, 1, "---\n") THEN IndexFrom(s, "\n---", 5) ELSE 0

\* String.prototype.split with a string separator
RECURSIVE Split(_, _)
Split(s, sep) ==
  IF IndexFrom(s, sep, 1) = 0 THEN <<s>>
  ELSE <<SubSeq(s, 1, IndexFrom(s, sep, 1) - 1)>>
         \o Split(SubSeq(s, IndexFrom(s, sep, 1) + Len(sep), Len(s)), sep)

\* the quotes left in place
KeepQuotes(s) == s

\* .replace(/^["']|["']$/g, ''): a quote at the start is dropped, and a quote
\* at the end that is not that same character
StripQuotes(s) ==
  SubSeq(s,
         IF CharAt(s, 1) \in Quotes THEN 2 ELSE 1,
         IF CharAt(s, Len(s)) \in Quotes /\ (Len(s) >= 2 \/ CharAt(s, 1) \notin Quotes)
         THEN Len(s) - 1 ELSE Len(s))

\* const frontmatter = {} (line 229)
EmptyFrontmatter == [k \in {} |-> ""]

\* frontmatter[key] = value (line 237).  The object is an ordinary one: an
\* assignment to the key __proto__ with a string sets nothing
SetKey(frontmatter, key, value) ==
  IF key = "__proto__" THEN frontmatter
  ELSE [k \in DOMAIN frontmatter \cup {key} |->
          IF k = key THEN value ELSE frontmatter[k]]

\* lines 233-238: one line, its first colon at position c (0: none)
SetLine(frontmatter, line, c) ==
  IF c > 1
  THEN SetKey(frontmatter, Trim(SubSeq(line, 1, c - 1)),
              StripQuotes(Trim(SubSeq(line, c + 1, Len(line)))))
  ELSE frontmatter

\* lines 232-239
RECURSIVE ParseLines(_, _)
ParseLines(lines, frontmatter) ==
  IF lines = <<>> THEN frontmatter
  ELSE ParseLines(Tail(lines),
                  SetLine(frontmatter, Head(lines), IndexFrom(Head(lines), ":", 1)))

extractFrontmatter(content) ==
  IF FrontmatterClose(content) = 0 THEN Null
  ELSE Some(ParseLines(Split(SubSeq(content, 5, FrontmatterClose(content) - 1), "\n"),
                       EmptyFrontmatter))

----------------------------------------------------------------------------
(* publishRow of the auto-publish route and what it calls *)
(* (src/app/api/auto-publish/route.ts, lines 55-190)      *)

\* [a-zA-Z0-9_-]
IdChars == WordChars \cup {"-"}

\* prefix([a-zA-Z0-9_-]+) matches at position i: the position after the
\* match, 0 when it does not match
IdAfter(s, i, prefix) ==
  IF LitAt(s, i, prefix) /\ CharAt(s, i + Len(prefix)) \in IdChars
  THEN SkipClass(s, i + Len(prefix), IdChars) ELSE 0

\* s.match(/prefix([a-zA-Z0-9_-]+)/): where the leftmost match starts, 0 for
\* null
IdMatch(s, prefix) == First({i \in 1..Len(s) : IdAfter(s, i, prefix) > 0})

\* match[1]
IdOf(s, prefix) ==
  SubSeq(s, IdMatch(s, prefix) + Len(prefix), IdAfter(s, IdMatch(s, prefix), prefix) - 1)

\* /^[a-zA-Z0-9_-]{20,}$/.test(s)
IsRawId(s) ==
  Len(s) >= 20 /\ \A i \in 1..Len(s) : CharAt(s, i) \in IdChars

\* extractDriveFileId (google-drive.ts, lines 90-111)
extractDriveFileId(driveUrl) ==
  IF driveUrl = "" THEN Null
  ELSE IF IdMatch(driveUrl, "/file/d/") > 0 THEN Some(IdOf(driveUrl, "/file/d/"))
  ELSE IF IdMatch(driveUrl, "/open?id=") > 0 THEN Some(IdOf(driveUrl, "/open?id="))
  ELSE IF IdMatch(driveUrl, "?id=") > 0 /\
          (IdMatch(driveUrl, "&id=") = 0 \/ IdMatch(driveUrl, "?id=") < IdMatch(driveUrl, "&id="))
       THEN Some(IdOf(driveUrl, "?id="))
  ELSE IF IdMatch(driveUrl, "&id=") > 0 THEN Some(IdOf(driveUrl, "&id="))
  ELSE IF IsRawId(Trim(driveUrl)) THEN Some(Trim(driveUrl))
  ELSE Null

\* the value of a string of digits
RECURSIVE DigitsValue(_)
DigitsValue(s) ==
  IF s = "" THEN 0
  ELSE 10 * DigitsValue(SubSeq(s, 1, Len(s) - 1))
         + (CHOOSE d \in 0..9 : ToString(d) = CharAt(s, Len(s)))

\* every row taken as one without a WordPress id
NoWpId(wordpressId) == 0

\* row.wordpressId ? parseInt(row.wordpressId) : null (line 162), for an id
\* without a sign: the number its leading digits give; 0 stands for null, for
\* NaN and for 0, which line 164 takes alike
ExistingWpId(wordpressId) ==
  DigitsValue(SubSeq(wordpressId, SkipWs(wordpressId, 1),
                     SkipClass(wordpressId, SkipWs(wordpressId, 1), Digits) - 1))

\* lines 76-80: the document normalized, then without its title
PublishedBody(rawHtml) ==
  extractTitleFromContent(cleanGoogleDocsHtml(rawHtml)).contentWithoutTitle

\* no content ever counts as empty
NeverEmpty(s) == FALSE

\* !content (line 86)
IsEmpty(s) == s = ""

----------------------------------------------------------------------------
(* The documents cleanHtml is applied to *)

\* the strings of a sequence, joined
RECURSIVE Concat(_)
Concat(q) == IF q = <<>> THEN "" ELSE Head(q) \o Concat(Tail(q))

\* the sections a document is made of: body paragraphs, and each kind of
\* marker of a meta section
Blocks ==
  { "<p>Intro</p>",
    "<hr>",
    "<p>SEO:</p>",
    "<h2>Meta  Info</h2>",
    "<p><b>Notes</b> x</p>",
    "***" }

MaxBlocks == 3

\* the documents of at most MaxBlocks sections
BlockDocs ==
  {Concat(q) : q \in UNION {[1..n -> Blocks] : n \in 0..MaxBlocks}}

\* elements with tags and attributes inside and outside the allowed set
Elements ==
  { "<p>SEO</p>",
    "<p>SEO Title: X</p>",
    "<p><span>Tags</span></p>",
    "<p>a</p>---",
    "<u>x</u>",
    "<a href=\"/x\">y</a>",
    "<a id=\"n\">y</a>",
    "<SCRIPT>x</SCRIPT>",
    "<p>a</p> <p>b</p>" }

\* fragments of markup: stray angle brackets, an unterminated tag, whole
\* tags, an attribute, a comment
Fragments ==
  { "<", ">", "<hr", "<u>", "<span>", " class=\"c\"", "<!--c-->" }

\* s with the fragment put in after its k-th character
Splice(s, k, fragment) ==
  SubSeq(s, 1, k) \o fragment \o SubSeq(s, k + 1, Len(s))

\* every element with one fragment put in at one place
SpliceDocs ==
  UNION {{Splice(e, k, f) : k \in 0..Len(e), f \in Fragments} : e \in Elements}

MaxNesting == 3

\* n paragraphs opened, text, n paragraphs closed
RECURSIVE Nested(_, _)
Nested(n, text) == IF n = 0 THEN text ELSE "<p>" \o Nested(n - 1, text) \o "</p>"

NestedDocs == {Nested(n, text) : n \in 0..MaxNesting, text \in {"", " ", "x"}}

\* paragraphs and headings
BlockElements == {"<p>a</p>", "<h1>A</h1>", "<h2>B</h2>"}

\* two paragraphs or headings, one after the other, with nothing or white
\* space in between
AdjacentDocs ==
  {a \o gap \o b : a \in BlockElements, gap \in {"", " ", "\n"}, b \in BlockElements}

\* nothing, or an attribute as an export puts it on a tag
Attributes == {"", " class=\"c\""}

\* a label as a paragraph, as a heading and as a bold run, with and without
\* attributes on its tags
LabelElements ==
  {"<p" \o x \o ">SEO</p>" : x \in Attributes}
    \cup {"<h2" \o x \o ">Tags</h2>" : x \in Attributes}
    \cup {"<p" \o x \o "><b" \o y \o ">Notes</b></p>" : x \in Attributes, y \in Attributes}
    \cup {"<p><strong" \o x \o ">Notes:</strong> x</p>" : x \in Attributes}

\* a body paragraph and then a label element
LabelDocs == {"<p>Intro</p>" \o e : e \in LabelElements}

Docs == BlockDocs \cup SpliceDocs \cup NestedDocs \cup AdjacentDocs \cup LabelDocs

----------------------------------------------------------------------------
(* cleanHtml as a state machine: a document comes in, is cleaned, and the   *)
(* result is cleaned once more                                              *)

VARIABLES
  doc,          \* the argument html of cleanHtml
  truncated,    \* the local cleaned after step 1 (line 112)
  cleaned,      \* what cleanHtml returns
  recleaned,    \* what cleanHtml returns for cleaned
  pc            \* "input", "cleaned" or "recleaned"; "idle" when no call is made

\* a call of processDocument
VARIABLES
  mimeType,     \* its arguments: the declared type,
  fileName,     \* the name of the file,
  content,      \* and the text of the file
  phase,        \* where the call stands: "called", "convertToHtml", "import",
                \* "pdfParse", "returned" or "thrown"; "idle" when none is made
  result,       \* what the call returns
  error,        \* what the call throws
  resolved,     \* what the collaborator the call awaits has returned
  mammothCalls, \* the calls of mammoth.convertToHtml made so far
  pdfParseCalls \* the calls of pdfParse made so far

\* a call of extractTitleFromContent, and a second one on what it returns
VARIABLES
  titleInput,          \* the argument html
  title,               \* title of what it returns: Null or Some(text)
  contentWithoutTitle, \* contentWithoutTitle of what it returns
  secondTitle,         \* title of what the second call returns
  secondContent,       \* contentWithoutTitle of what the second call returns
  titlePc              \* "input", "extracted" or "extractedAgain"; "idle"

\* a markdown text, given to processMarkdown and to extractFrontmatter
VARIABLES
  markdown,     \* the text
  stripped,     \* what processMarkdown returns
  parsed,       \* what extractFrontmatter returns: Null or Some(mapping)
  markdownPc    \* "input", "stripped" or "parsed"; "idle"

\* a call of publishRow
VARIABLES
  row,             \* its argument: the row of the sheet
  publishPhase,    \* where the call stands: "called", the collaborator it
                   \* awaits, or "returned"; "idle" when none is made
  exported,        \* the local rawHtml: what getDocumentContent resolved with
  body,            \* the local content
  success,         \* result.success
  publishError,    \* result.error, "" when it is not set
  postId,          \* wpResult.postId, 0 when there is none
  featuredMediaId, \* the local featuredMediaId, 0 when it is undefined
  createPostCalls, \* the calls of createPost made so far
  updatePostCalls, \* the calls of updatePost made so far
  updateRowCalls   \* the calls of updateRowAfterPublish made so far

\* the GET handler of the auto-publish route, the sheet, and WordPress
VARIABLES
  request,      \* the request under authorization: its session, its headers
                \* and the environment they are compared with
  getPhase,     \* where the handler stands: "called", the collaborator it
                \* awaits, "publishRow", or "responded"; "idle" when no
                \* request is handled
  rows,         \* the local rows: what getContentRepoData resolved with
  readyRows,    \* the local readyRows
  results,      \* the local results
  response,     \* what the handler answers
  runs,         \* the requests handled so far
  sheetReads,   \* the calls of getContentRepoData the handler has made
  sheet,        \* the Content Repo sheet below its header: row k of the
                \* sequence is row k + 1 of the sheet
  posts         \* the posts WordPress has created: post 100 + k was created
                \* for the row posts[k]

\* POST /api/documents and POST /api/publish
VARIABLES
  docRequest,          \* the request of POST /api/documents: its session and
                       \* the documentId of its body
  docPhase,            \* where that handler stands
  docContent,          \* its local content
  driveError,          \* the catch of its line 127 has run
  imageData,           \* its metadata.featuredImageData is set
  docResponse,         \* the status it answers with, 0 before it answers
  processedDocuments,  \* the store of processed documents
  pubRequest,          \* the request of POST /api/publish: its session, the
                       \* document and the status of its body
  pubPhase,            \* where that handler stands
  pubMediaId,          \* its local featuredMediaId, 0 when it is undefined
  pubResponse,         \* what it answers
  requests             \* the requests the two handlers have taken

\* calls of processDocument, cleanHtml and extractTitleFromContent that are
\* made side by side
VARIABLES
  calls   \* for each call: its arguments, what its collaborator will settle
          \* with, where the call stands, what its awaited promise has
          \* settled with, and what the call has returned or thrown

cleanVars == <<doc, truncated, cleaned, recleaned, pc>>

callVars == <<calls>>

docVars ==
  <<docRequest, docPhase, docContent, driveError, imageData, docResponse,
    processedDocuments, pubRequest, pubPhase, pubMediaId, pubResponse, requests>>

getVars == <<request, getPhase, rows, readyRows, results, response, runs, sheetReads>>

autoVars == <<getVars, sheet, posts>>

publishVars ==
  <<row, publishPhase, exported, body, success, publishError, postId, featuredMediaId,
    createPostCalls, updatePostCalls, updateRowCalls>>

titleVars ==
  <<titleInput, title, contentWithoutTitle, secondTitle, secondContent, titlePc>>

markdownVars == <<markdown, stripped, parsed, markdownPc>>

processVars ==
  <<mimeType, fileName, content, phase, result, error, resolved,
    mammothCalls, pdfParseCalls>>

vars ==
  <<cleanVars, processVars, titleVars, markdownVars, publishVars, autoVars, docVars,
    callVars>>

\* no call of cleanHtml on its own is made
NoClean ==
  /\ doc = ""
  /\ truncated = ""
  /\ cleaned = ""
  /\ recleaned = ""
  /\ pc = "idle"

\* no call of extractTitleFromContent on its own is made
NoTitle ==
  /\ titleInput = ""
  /\ title = Null
  /\ contentWithoutTitle = ""
  /\ secondTitle = Null
  /\ secondContent = ""
  /\ titlePc = "idle"

\* no markdown text is handled on its own
NoMarkdown ==
  /\ markdown = ""
  /\ stripped = ""
  /\ parsed = Null
  /\ markdownPc = "idle"

\* the row at rest
NoRow ==
  [rowIndex |-> 0, status |-> "", blogLink |-> "", wordpressId |-> "",
   photoLink |-> "", primaryKeyword |-> ""]

\* no call of publishRow is made
NoPublish ==
  /\ row = NoRow
  /\ publishPhase = "idle"
  /\ exported = ""
  /\ body = ""
  /\ success = FALSE
  /\ publishError = ""
  /\ postId = 0
  /\ featuredMediaId = 0
  /\ createPostCalls = 0
  /\ updatePostCalls = 0
  /\ updateRowCalls = 0

NoRequest ==
  [session |-> Null, apiKey |-> Null, expectedKey |-> Null,
   authorization |-> Null, cronSecret |-> Null]

NoResponse == [status |-> 0, error |-> "", processed |-> 0, successful |-> 0, failed |-> 0]

\* no request is handled
NoGet ==
  /\ request = NoRequest
  /\ getPhase = "idle"
  /\ rows = <<>>
  /\ readyRows = <<>>
  /\ results = <<>>
  /\ response = NoResponse
  /\ runs = 0
  /\ sheetReads = 0

\* no request is handled, and there is no sheet
NoAuto ==
  /\ NoGet
  /\ sheet = <<>>
  /\ posts = <<>>

NoDocRequest == [session |-> Null, documentId |-> ""]

NoDocument ==
  [id |-> "", status |-> "", content |-> "", wpPostId |-> 0, sheetRowIndex |-> 0,
   imageData |-> FALSE, tags |-> FALSE]

NoPubRequest == [session |-> Null, document |-> NoDocument, status |-> ""]

NoPubResponse == [status |-> 0, postId |-> 0, isUpdate |-> FALSE, error |-> ""]

\* neither POST /api/documents nor POST /api/publish is called
NoDocs ==
  /\ docRequest = NoDocRequest
  /\ docPhase = "idle"
  /\ docContent = ""
  /\ driveError = FALSE
  /\ imageData = FALSE
  /\ docResponse = 0
  /\ processedDocuments = {}
  /\ pubRequest = NoPubRequest
  /\ pubPhase = "idle"
  /\ pubMediaId = 0
  /\ pubResponse = NoPubResponse
  /\ requests = 0

\* no calls are made side by side
NoCalls == calls = <<>>

\* no call of processDocument is made
NoProcess ==
  /\ mimeType = ""
  /\ fileName = ""
  /\ content = ""
  /\ phase = "idle"
  /\ result = ""
  /\ error = ""
  /\ resolved = ""
  /\ mammothCalls = 0
  /\ pdfParseCalls = 0

InitClean ==
  /\ doc \in Docs
  /\ truncated = ""
  /\ cleaned = ""
  /\ recleaned = ""
  /\ pc = "input"
  /\ NoProcess
  /\ NoTitle
  /\ NoMarkdown
  /\ NoPublish
  /\ NoAuto
  /\ NoDocs
  /\ NoCalls

\* cleanHtml(doc)
Clean ==
  /\ pc = "input"
  /\ truncated' = RemoveMetaSections(doc)
  /\ cleaned' = cleanHtml(doc)
  /\ pc' = "cleaned"
  /\ UNCHANGED <<doc, recleaned, processVars, titleVars, markdownVars, publishVars, autoVars, docVars, callVars>>

\* cleanHtml(cleaned)
CleanAgain ==
  /\ pc = "cleaned"
  /\ recleaned' = cleanHtml(cleaned)
  /\ pc' = "recleaned"
  /\ UNCHANGED <<doc, truncated, cleaned, processVars, titleVars, markdownVars, publishVars, autoVars, docVars, callVars>>

NextClean == Clean \/ CleanAgain

SpecClean == InitClean /\ [][NextClean]_vars

----------------------------------------------------------------------------
(* processDocument as a state machine: a call is made, the collaborator it  *)
(* awaits resolves or rejects, the call returns or throws                   *)

GoogleDocType == "application/vnd.google-apps.document"

WordTypes ==
  { "application/vnd.openxmlformats-officedocument.wordprocessingml.document",
    "application/msword" }

PdfType == "application/pdf"

MarkdownTypes == {"text/markdown", "text/x-markdown"}

PlainTextType == "text/plain"

\* the case labels without the last one
TypesBeforePlainText == {GoogleDocType, PdfType} \cup WordTypes \cup MarkdownTypes

\* the case labels of the switch (lines 10-25)
RecognizedTypes ==
  {GoogleDocType, PdfType, PlainTextType} \cup WordTypes \cup MarkdownTypes

\* the declared types of the calls: the recognized ones, and others
MimeTypes ==
  {GoogleDocType, PdfType, PlainTextType} \cup WordTypes \cup MarkdownTypes \cup
    {"", "text/html", "TEXT/PLAIN", "Text/Markdown", "text/markdown ", "application/PDF"}

\* the file names of the calls
FileNames == {"post.md", "post.MD", "notes.md.txt", "post.docx", ".md", "md", ""}

\* the texts of the files
Contents ==
  { "",
    "  Body \n",
    "---\ntitle: T\n---\n\n# Body\n",
    "---\ntitle: T\n---",
    "\n---\ntitle: T\n---\nBody",
    "<html><body class=\"b\"><p class=\"c1 title\">T</p><p>Intro</p><hr><p>x</p></body></html>" }

\* what mammoth.convertToHtml resolves with: result.value
ConvertedHtml ==
  {"", "<p>Intro</p>", " <p>Body <span>text</span></p><hr><p>meta</p> ", "<h1 id=\"t\">T</h1><p>a</p> <p>b</p>"}

\* what pdfParse resolves with: data.text
PdfTexts == {"", "Body", "  Page 1\n\n---\nNotes:\n<p>x</p> \n"}

\* what a collaborator rejects with
Rejections == {"not a valid file", "out of memory"}

Init ==
  /\ NoClean
  /\ NoTitle
  /\ NoMarkdown
  /\ NoPublish
  /\ NoAuto
  /\ NoDocs
  /\ NoCalls
  /\ mimeType \in MimeTypes
  /\ fileName \in FileNames
  /\ content \in Contents
  /\ phase = "called"
  /\ result = ""
  /\ error = ""
  /\ resolved = ""
  /\ mammothCalls = 0
  /\ pdfParseCalls = 0

\* return VALUE
Return(value) ==
  /\ phase' = "returned"
  /\ result' = value
  /\ UNCHANGED <<mimeType, fileName, content, error, cleanVars, titleVars, markdownVars, publishVars, autoVars, docVars, callVars>>

\* throw, or an awaited promise rejects: the call rejects with the same error
Throw(e) ==
  /\ phase' = "thrown"
  /\ error' = e
  /\ UNCHANGED <<mimeType, fileName, content, result, resolved,
                 mammothCalls, pdfParseCalls, cleanVars, titleVars, markdownVars, publishVars, autoVars, docVars, callVars>>

\* lines 10-12
ProcessGoogleDoc ==
  /\ phase = "called"
  /\ mimeType = GoogleDocType
  /\ Return(cleanGoogleDocsHtml(content))
  /\ UNCHANGED <<resolved, mammothCalls, pdfParseCalls>>

\* lines 14-16 and 61: mammoth.convertToHtml is called and awaited
ProcessWord ==
  /\ phase = "called"
  /\ mimeType \in WordTypes
  /\ phase' = "convertToHtml"
  /\ mammothCalls' = mammothCalls + 1
  /\ UNCHANGED <<mimeType, fileName, content, result, error, resolved,
                 pdfParseCalls, cleanVars, titleVars, markdownVars, publishVars, autoVars, docVars, callVars>>

\* lines 61-62: the promise resolves, the call returns cleanHtml(result.value)
ConvertToHtmlResolves ==
  /\ phase = "convertToHtml"
  /\ \E value \in ConvertedHtml :
       /\ resolved' = value
       /\ Return(cleanHtml(value))
  /\ UNCHANGED <<mammothCalls, pdfParseCalls>>

\* the promise rejects and mammoth.convertToHtml is called once more
ConvertToHtmlRetried ==
  /\ phase = "convertToHtml"
  /\ mammothCalls' = mammothCalls + 1
  /\ UNCHANGED <<mimeType, fileName, content, phase, result, error, resolved,
                 pdfParseCalls, cleanVars, titleVars, markdownVars, publishVars, autoVars, docVars, callVars>>

\* line 61: the promise rejects
ConvertToHtmlRejects ==
  /\ phase = "convertToHtml"
  /\ \E e \in Rejections : Throw(e)

\* lines 18-19 and 67: the module pdf-parse is imported and awaited
ProcessPdf ==
  /\ phase = "called"
  /\ mimeType = PdfType
  /\ phase' = "import"
  /\ UNCHANGED <<mimeType, fileName, content, result, error, resolved,
                 mammothCalls, pdfParseCalls, cleanVars, titleVars, markdownVars, publishVars, autoVars, docVars, callVars>>

\* lines 67-68: the import resolves, pdfParse is called and awaited
ImportResolves ==
  /\ phase = "import"
  /\ phase' = "pdfParse"
  /\ pdfParseCalls' = pdfParseCalls + 1
  /\ UNCHANGED <<mimeType, fileName, content, result, error, resolved,
                 mammothCalls, cleanVars, titleVars, markdownVars, publishVars, autoVars, docVars, callVars>>

\* line 67: the import rejects
ImportRejects ==
  /\ phase = "import"
  /\ \E e \in Rejections : Throw(e)

\* the promise resolves, the call returns cleanHtml(data.text)
PdfParseResolvesCleaned ==
  /\ phase = "pdfParse"
  /\ \E value \in PdfTexts :
       /\ resolved' = value
       /\ Return(cleanHtml(value))
  /\ UNCHANGED <<mammothCalls, pdfParseCalls>>

\* lines 68-69: the promise resolves, the call returns data.text
PdfParseResolves ==
  /\ phase = "pdfParse"
  /\ \E value \in PdfTexts :
       /\ resolved' = value
       /\ Return(value)
  /\ UNCHANGED <<mammothCalls, pdfParseCalls>>

\* line 68: the promise rejects
PdfParseRejects ==
  /\ phase = "pdfParse"
  /\ \E e \in Rejections : Throw(e)

\* lines 21-23
ProcessMarkdownType ==
  /\ phase = "called"
  /\ mimeType \in MarkdownTypes
  /\ Return(processMarkdown(content))
  /\ UNCHANGED <<resolved, mammothCalls, pdfParseCalls>>

\* lines 25-26
ProcessPlainText ==
  /\ phase = "called"
  /\ mimeType = PlainTextType
  /\ Return(content)
  /\ UNCHANGED <<resolved, mammothCalls, pdfParseCalls>>

\* lines 28-32: the default case, a file name that ends with .md
ProcessMarkdownFile ==
  /\ phase = "called"
  /\ mimeType \notin RecognizedTypes
  /\ EndsWith(fileName, ".md")
  /\ Return(processMarkdown(content))
  /\ UNCHANGED <<resolved, mammothCalls, pdfParseCalls>>

\* lines 28-33: the default case, any other file name
ProcessUnsupported ==
  /\ phase = "called"
  /\ mimeType \notin RecognizedTypes
  /\ ~EndsWith(fileName, ".md")
  /\ Throw("Unsupported file type: " \o mimeType)

Next ==
  \/ ProcessGoogleDoc
  \/ ProcessWord
  \/ ConvertToHtmlResolves
  \/ ConvertToHtmlRejects
  \/ ProcessPdf
  \/ ImportResolves
  \/ ImportRejects
  \/ PdfParseResolves
  \/ PdfParseRejects
  \/ ProcessMarkdownType
  \/ ProcessPlainText
  \/ ProcessMarkdownFile
  \/ ProcessUnsupported

Spec == Init /\ [][Next]_vars

----------------------------------------------------------------------------
(* extractTitleFromContent as a state machine: a markup comes in, its title *)
(* is extracted, and what is left goes through the extraction once more     *)

\* what the markups are made of: headings of both levels, with attributes,
\* nested tags, entities and nothing at all in them, a heading in a
\* heading, a paragraph and white space
TitlePieces ==
  { "<h1>A</h1>",
    "<h2>B</h2>",
    "<H1 class=\"t\"> <b>Tom</b> &amp; Jerry </H1>",
    "<h1> <i></i>&nbsp;</h1>",
    "<h2>&amp;lt;b&gt; &quot;x&#39;</h2>",
    "<h1>A<h2>B</h2></h1>",
    "<p>x</p>",
    " " }

MaxPieces == 2

PieceDocs ==
  {Concat(q) : q \in UNION {[1..n -> TitlePieces] : n \in 0..MaxPieces}}

\* a heading put in at any place of another element
HeadingSplices ==
  { Splice(s, k, "<h1>a</h1>") : s \in {"<h1>A</h1>", "<h2>B</h2>"}, k \in 0..10 }

\* a heading whose text is an escaped entity
EntityDocs == {"<h1>&amp;lt;</h1>", "<h2>&amp;amp; &lt;&amp;gt;</h2>"}

TitleDocs == PieceDocs \cup HeadingSplices \cup EntityDocs

InitTitle ==
  /\ titleInput \in TitleDocs
  /\ title = Null
  /\ contentWithoutTitle = ""
  /\ secondTitle = Null
  /\ secondContent = ""
  /\ titlePc = "input"
  /\ NoClean
  /\ NoProcess
  /\ NoMarkdown
  /\ NoPublish
  /\ NoAuto
  /\ NoDocs
  /\ NoCalls

\* extractTitleFromContent(titleInput)
ExtractTitle ==
  /\ titlePc = "input"
  /\ title' = extractTitleFromContent(titleInput).title
  /\ contentWithoutTitle' = extractTitleFromContent(titleInput).contentWithoutTitle
  /\ titlePc' = "extracted"
  /\ UNCHANGED <<titleInput, secondTitle, secondContent,
                 cleanVars, processVars, markdownVars, publishVars, autoVars, docVars, callVars>>

\* extractTitleFromContent(contentWithoutTitle)
ExtractTitleAgain ==
  /\ titlePc = "extracted"
  /\ secondTitle' = extractTitleFromContent(contentWithoutTitle).title
  /\ secondContent' = extractTitleFromContent(contentWithoutTitle).contentWithoutTitle
  /\ titlePc' = "extractedAgain"
  /\ UNCHANGED <<titleInput, title, contentWithoutTitle,
                 cleanVars, processVars, markdownVars, publishVars, autoVars, docVars, callVars>>

NextTitle == ExtractTitle \/ ExtractTitleAgain

SpecTitle == InitTitle /\ [][NextTitle]_vars

----------------------------------------------------------------------------
(* processMarkdown and extractFrontmatter as a state machine: a text comes  *)
(* in, its frontmatter is stripped, and its frontmatter is parsed           *)

\* the ways a text opens: with the delimiter, with something close to it,
\* with nothing
Openings == {"---\n", "---", " ---\n", ""}

\* the lines of a block
BlockLines ==
  { "", "key: v", "title: \"My Post\"", "tags: 'a:b'", "key : w ", ": v",
    "no colon", "q: \"", "__proto__: x" }

\* the ways a block closes
Closings == {"\n---\n", "\n---", "\n--- \n", "---\n", "\n"}

\* what follows the block
Bodies == {"", "Body", " \n# Body \n", "a\n---\nb"}

MaxLines == 2

\* the lines of a sequence, joined with line feeds
RECURSIVE Join(_)
Join(q) ==
  IF q = <<>> THEN ""
  ELSE IF Len(q) = 1 THEN Head(q)
  ELSE Head(q) \o "\n" \o Join(Tail(q))

FrontmatterBlocks == {Join(q) : q \in UNION {[1..n -> BlockLines] : n \in 0..MaxLines}}

MarkdownTexts ==
  { o \o b \o c \o t : o \in Openings, b \in FrontmatterBlocks, c \in Closings, t \in Bodies }

InitMarkdown ==
  /\ markdown \in MarkdownTexts
  /\ stripped = ""
  /\ parsed = Null
  /\ markdownPc = "input"
  /\ NoClean
  /\ NoProcess
  /\ NoTitle
  /\ NoPublish
  /\ NoAuto
  /\ NoDocs
  /\ NoCalls

\* processMarkdown(markdown)
StripMarkdown ==
  /\ markdownPc = "input"
  /\ stripped' = processMarkdown(markdown)
  /\ markdownPc' = "stripped"
  /\ UNCHANGED <<markdown, parsed, cleanVars, processVars, titleVars, publishVars, autoVars, docVars, callVars>>

\* extractFrontmatter(markdown)
ParseMarkdown ==
  /\ markdownPc = "stripped"
  /\ parsed' = extractFrontmatter(markdown)
  /\ markdownPc' = "parsed"
  /\ UNCHANGED <<markdown, stripped, cleanVars, processVars, titleVars, publishVars, autoVars, docVars, callVars>>

NextMarkdown == StripMarkdown \/ ParseMarkdown

SpecMarkdown == InitMarkdown /\ [][NextMarkdown]_vars

----------------------------------------------------------------------------
(* publishRow as a state machine: the row is published step by step, each   *)
(* collaborator the call awaits resolves or rejects                         *)

\* Column K of the rows
BlogLinks ==
  { "",
    "https://drive.google.com/file/d/1AbC_d-9/view",
    "https://drive.google.com/open?id=1AbC",
    "https://docs.google.com/document/d/1AbC/edit" }

\* Column M of the rows
WordpressIds == {"", "17", "n/a"}

\* Column L of the rows
PhotoLinks == {"", "https://drive.google.com/file/d/9xYz/view"}

\* Column G of the rows
PrimaryKeywords == {"", "budget"}

\* the rows publishRow is called with
Rows ==
  [ rowIndex : {2},
    status : {"Ready to Post"},
    blogLink : BlogLinks,
    wordpressId : WordpressIds,
    photoLink : PhotoLinks,
    primaryKeyword : PrimaryKeywords ]

\* what getDocumentContent resolves with: the document exported as HTML
RawHtmls ==
  { "",
    "<html><body><h1>Post</h1></body></html>",
    "<html><body><hr><p>SEO:</p></body></html>",
    "<html><body><p class=\"title\">T</p><h1>Post</h1><p>Intro</p><p>SEO:</p><p>x</p></body></html>",
    "<p>Intro</p>" }

\* the ids WordPress gives: 0 stands for a response without an id
PostIds == {0, 101}

\* the columns of a row as the sheet holds them
Columns(r) ==
  [status |-> r.status, blogLink |-> r.blogLink, wordpressId |-> r.wordpressId,
   photoLink |-> r.photoLink, primaryKeyword |-> r.primaryKeyword]

\* lines 59-63
InitPublish ==
  /\ row \in Rows
  /\ publishPhase = "called"
  /\ exported = ""
  /\ body = ""
  /\ success = FALSE
  /\ publishError = ""
  /\ postId = 0
  /\ featuredMediaId = 0
  /\ createPostCalls = 0
  /\ updatePostCalls = 0
  /\ updateRowCalls = 0
  /\ NoGet
  /\ sheet = <<Columns(row)>>
  /\ posts = <<>>
  /\ NoClean
  /\ NoProcess
  /\ NoTitle
  /\ NoMarkdown
  /\ NoDocs
  /\ NoCalls

otherVars ==
  <<cleanVars, processVars, titleVars, markdownVars, getVars, docVars, callVars>>

\* result.error = e; return result
Fail(e) ==
  /\ publishError' = e
  /\ publishPhase' = "returned"
  /\ UNCHANGED <<row, success, postId, createPostCalls, updatePostCalls,
                 updateRowCalls, sheet, posts, otherVars>>

\* the call goes on to await the collaborator of the next phase
Await(next) ==
  /\ publishPhase' = next
  /\ UNCHANGED <<row, success, publishError, postId, updateRowCalls, sheet, posts,
                 otherVars>>

\* lines 67-71: no Drive file id in the link
NoDriveLink ==
  /\ publishPhase = "called"
  /\ extractDriveFileId(row.blogLink) = Null
  /\ Fail("No valid Drive link in Column K (Blog Link)")
  /\ UNCHANGED <<exported, body, featuredMediaId>>

\* lines 67-75: getDocumentContent is called and awaited
GetDocumentContent ==
  /\ publishPhase = "called"
  /\ extractDriveFileId(row.blogLink) # Null
  /\ Await("getDocumentContent")
  /\ UNCHANGED <<exported, body, featuredMediaId, createPostCalls, updatePostCalls>>

\* lines 81-83: getDocumentContent rejects
GetDocumentContentRejects ==
  /\ publishPhase = "getDocumentContent"
  /\ \E e \in Rejections : Fail("Failed to fetch document: " \o e)
  /\ UNCHANGED <<exported, body, featuredMediaId>>

\* lines 75-89: the document is normalized, its title is taken out, and
\* nothing is left
DocumentIsEmpty ==
  /\ publishPhase = "getDocumentContent"
  /\ exported' \in RawHtmls
  /\ body' = PublishedBody(exported')
  /\ IsEmpty(body')
  /\ Fail("Document has no content")
  /\ UNCHANGED featuredMediaId

\* lines 75-119 and 140: the document is normalized, its title is taken out;
\* the featured image is downloaded when the row has one, the category is
\* looked up otherwise
DocumentHasContent ==
  /\ publishPhase = "getDocumentContent"
  /\ exported' \in RawHtmls
  /\ body' = PublishedBody(exported')
  /\ ~IsEmpty(body')
  /\ Await(IF row.photoLink # "" THEN "downloadFeaturedImage" ELSE "getOrCreateCategory")
  /\ UNCHANGED <<featuredMediaId, createPostCalls, updatePostCalls>>

\* lines 119-126: the image is there, it is uploaded
DownloadSucceeds ==
  /\ publishPhase = "downloadFeaturedImage"
  /\ Await("uploadFeaturedImage")
  /\ UNCHANGED <<exported, body, featuredMediaId, createPostCalls, updatePostCalls>>

\* lines 119-140: the download returns without an image, or rejects; the
\* call goes on without an image
DownloadFails ==
  /\ publishPhase = "downloadFeaturedImage"
  /\ Await("getOrCreateCategory")
  /\ UNCHANGED <<exported, body, featuredMediaId, createPostCalls, updatePostCalls>>

\* lines 128-140: the upload returns a media id
UploadSucceeds ==
  /\ publishPhase = "uploadFeaturedImage"
  /\ featuredMediaId' = 55
  /\ Await("getOrCreateCategory")
  /\ UNCHANGED <<exported, body, createPostCalls, updatePostCalls>>

\* lines 128-140: the upload returns without a media id, or rejects
UploadFails ==
  /\ publishPhase = "uploadFeaturedImage"
  /\ Await("getOrCreateCategory")
  /\ UNCHANGED <<exported, body, featuredMediaId, createPostCalls, updatePostCalls>>

\* lines 162-169: updatePost is called for a row with a WordPress id,
\* createPost otherwise
CallWordPress ==
  /\ publishPhase' = (IF ExistingWpId(row.wordpressId) # 0 THEN "updatePost" ELSE "createPost")
  /\ createPostCalls' = createPostCalls + (IF ExistingWpId(row.wordpressId) # 0 THEN 0 ELSE 1)
  /\ updatePostCalls' = updatePostCalls + (IF ExistingWpId(row.wordpressId) # 0 THEN 1 ELSE 0)
  /\ UNCHANGED <<row, exported, body, success, publishError, postId, featuredMediaId,
                 updateRowCalls, sheet, posts, otherVars>>

\* lines 140-141: the category is there, the row has a keyword: the tags
\* are looked up
CategoryResolvesWithTags ==
  /\ publishPhase = "getOrCreateCategory"
  /\ row.primaryKeyword # ""
  /\ Await("getOrCreateTags")
  /\ UNCHANGED <<exported, body, featuredMediaId, createPostCalls, updatePostCalls>>

\* lines 140-169: the category is there, the row has no keyword
CategoryResolves ==
  /\ publishPhase = "getOrCreateCategory"
  /\ row.primaryKeyword = ""
  /\ CallWordPress

\* lines 141-169
TagsResolve ==
  /\ publishPhase = "getOrCreateTags"
  /\ CallWordPress

\* lines 140-141 and 186-189: getOrCreateCategory or getOrCreateTags rejects
TaxonomyRejects ==
  /\ publishPhase \in {"getOrCreateCategory", "getOrCreateTags"}
  /\ \E e \in Rejections : Fail(e)
  /\ UNCHANGED <<exported, body, featuredMediaId>>

\* lines 171-177: WordPress returns success and a post id, the id of a new
\* post after createPost, the id of the row after updatePost;
\* updateRowAfterPublish is called
WordPressSucceeds ==
  /\ publishPhase \in {"createPost", "updatePost"}
  /\ posts' = (IF publishPhase = "createPost" THEN Append(posts, row.rowIndex) ELSE posts)
  /\ postId' = (IF publishPhase = "createPost" THEN 100 + Len(posts) + 1
                ELSE ExistingWpId(row.wordpressId))
  /\ publishPhase' = "updateRowAfterPublish"
  /\ updateRowCalls' = updateRowCalls + 1
  /\ UNCHANGED <<row, exported, body, success, publishError, featuredMediaId,
                 createPostCalls, updatePostCalls, sheet, otherVars>>

\* lines 171-174: WordPress returns a failure, or success without a post id
WordPressFails ==
  /\ publishPhase \in {"createPost", "updatePost"}
  /\ \E e \in {"WordPress API error: 500 - ", "WordPress publish failed"} : Fail(e)
  /\ UNCHANGED <<exported, body, featuredMediaId>>

\* google-sheets.ts lines 90-107: columns I and M of the row are written
WriteRow(sh, rowIndex, status, wordpressId) ==
  [sh EXCEPT ![rowIndex - 1].status = status,
             ![rowIndex - 1].wordpressId = ToString(wordpressId)]

\* lines 177-185: the row is updated
UpdateRowResolves ==
  /\ publishPhase = "updateRowAfterPublish"
  /\ sheet' = WriteRow(sheet, row.rowIndex, "Posted", postId)
  /\ success' = TRUE
  /\ publishPhase' = "returned"
  /\ UNCHANGED <<row, exported, body, publishError, postId, featuredMediaId,
                 createPostCalls, updatePostCalls, updateRowCalls, posts, otherVars>>

\* lines 177 and 186-189: updateRowAfterPublish rejects
UpdateRowRejects ==
  /\ publishPhase = "updateRowAfterPublish"
  /\ Fail("Failed to update Content Repo sheet")
  /\ UNCHANGED <<exported, body, featuredMediaId>>

NextPublish ==
  \/ NoDriveLink
  \/ GetDocumentContent
  \/ GetDocumentContentRejects
  \/ DocumentIsEmpty
  \/ DocumentHasContent
  \/ DownloadSucceeds
  \/ DownloadFails
  \/ UploadSucceeds
  \/ UploadFails
  \/ CategoryResolvesWithTags
  \/ CategoryResolves
  \/ TagsResolve
  \/ TaxonomyRejects
  \/ WordPressSucceeds
  \/ WordPressFails
  \/ UpdateRowResolves
  \/ UpdateRowRejects

SpecPublish == InitPublish /\ [][NextPublish]_vars

----------------------------------------------------------------------------
(* GET /api/auto-publish as a state machine: requests come in one after the *)
(* other; an authorized one reads the sheet and publishes its ready rows    *)

\* line 13
READY_STATUSES == <<"ready to post", "ready", "readytopost", "publish">>

\* replace(/\s+/g, '')
RECURSIVE WithoutWs(_)
WithoutWs(s) ==
  IF s = "" THEN ""
  ELSE (IF CharAt(s, 1) \in WS THEN "" ELSE CharAt(s, 1)) \o WithoutWs(SubSeq(s, 2, Len(s)))

\* every status counts as ready
AnyStatus(st) == TRUE

\* lines 233-234
IsReady(st) ==
  \E k \in 1..Len(READY_STATUSES) : WithoutWs(ToLower(st)) = WithoutWs(READY_STATUSES[k])

\* google-sheets.ts lines 54-69: the rows below the header, each with its
\* row number
RowsOf(sh) ==
  [k \in 1..Len(sh) |->
    [rowIndex |-> k + 1, status |-> sh[k].status, blogLink |-> sh[k].blogLink,
     wordpressId |-> sh[k].wordpressId, photoLink |-> sh[k].photoLink,
     primaryKeyword |-> sh[k].primaryKeyword]]

\* lines 232-235
ReadyRows(all) == SelectSeq(all, LAMBDA r : IsReady(r.status))

\* an optional string that is neither undefined nor empty
Truthy(v) == v # Null /\ v # Some("")

\* line 203: the Authorization header without its first 'Bearer '
CronSecret(authorization) ==
  IF authorization = Null THEN Null ELSE Some(RemoveFirst(authorization[1], "Bearer "))

\* the secrets compared, whether or not there is one
SameSecret(cronSecret, env) == cronSecret = env

\* line 204
IsVercelCron(cronSecret, env) == Truthy(cronSecret) /\ cronSecret = env

\* line 210: !(!apiKey || apiKey !== expectedKey)
IsApiKey(apiKey, expectedKey) == Truthy(apiKey) /\ apiKey = expectedKey

\* line 210: the request goes on
Authorized(req) ==
  \/ Truthy(req.session)
  \/ IsVercelCron(CronSecret(req.authorization), req.cronSecret)
  \/ IsApiKey(req.apiKey, req.expectedKey)

\* the access token of the session, the x-api-key header, AUTO_PUBLISH_API_KEY,
\* the Authorization header, CRON_SECRET
Requests ==
  [ session : {Null},
    apiKey : {Null, Some("k1")},
    expectedKey : {Null, Some("k1"), Some("k2")},
    authorization : {Null, Some("Bearer "), Some("Bearer s1"), Some("s1")},
    cronSecret : {Null, Some(""), Some("s1"), Some("s2")} ]
  \cup
  [ session : {Some("token")},
    apiKey : {Null, Some("k1")},
    expectedKey : {Null, Some("k1")},
    authorization : {Null},
    cronSecret : {Null} ]

\* rows of a sheet: ready to post and not yet posted; ready in another
\* spelling, with a WordPress id, an image and a keyword; ready without a
\* Drive link; a draft
ReadyRow ==
  [status |-> "Ready To Post", blogLink |-> "https://drive.google.com/open?id=1AbC",
   wordpressId |-> "", photoLink |-> "", primaryKeyword |-> ""]

PostedRow ==
  [status |-> " READY ", blogLink |-> "https://drive.google.com/open?id=1AbC",
   wordpressId |-> "17", photoLink |-> "https://drive.google.com/file/d/9xYz/view",
   primaryKeyword |-> "budget"]

UnlinkedRow ==
  [status |-> "publish", blogLink |-> "", wordpressId |-> "", photoLink |-> "",
   primaryKeyword |-> ""]

DraftRow ==
  [status |-> "Draft", blogLink |-> "https://drive.google.com/open?id=1AbC",
   wordpressId |-> "", photoLink |-> "", primaryKeyword |-> ""]

\* the sheets the requests find
Sheets ==
  { <<>>,
    <<DraftRow>>,
    <<ReadyRow>>,
    <<UnlinkedRow, ReadyRow>>,
    <<ReadyRow, DraftRow, PostedRow>> }

MaxRuns == 2

InitGet ==
  /\ NoGet
  /\ sheet \in Sheets
  /\ posts = <<>>
  /\ NoPublish
  /\ NoClean
  /\ NoProcess
  /\ NoTitle
  /\ NoMarkdown
  /\ NoDocs
  /\ NoCalls

restVars == <<cleanVars, processVars, titleVars, markdownVars, docVars, callVars>>

Response(status, message) ==
  [status |-> status, error |-> message, processed |-> 0, successful |-> 0, failed |-> 0]

\* return NextResponse.json({ error }, { status })
Respond(status, message) ==
  /\ response' = Response(status, message)
  /\ getPhase' = "responded"
  /\ UNCHANGED <<rows, readyRows, results, runs, sheetReads, sheet, posts, publishVars, restVars>>

\* line 199: a request comes in
Get ==
  /\ getPhase \in {"idle", "responded"}
  /\ runs < MaxRuns
  /\ request' \in Requests
  /\ getPhase' = "called"
  /\ rows' = <<>>
  /\ readyRows' = <<>>
  /\ results' = <<>>
  /\ response' = NoResponse
  /\ runs' = runs + 1
  /\ sheetReads' = 0
  /\ UNCHANGED <<sheet, posts, publishVars, restVars>>

\* lines 201-212: no session token, no cron secret, no API key
Unauthorized ==
  /\ getPhase = "called"
  /\ ~Authorized(request)
  /\ Respond(401, "Unauthorized")
  /\ UNCHANGED request

\* lines 201-229: the session has an access token; the sheet is read
SessionAuthorized ==
  /\ getPhase = "called"
  /\ Authorized(request)
  /\ Truthy(request.session)
  /\ request' = NoRequest
  /\ getPhase' = "getContentRepoData"
  /\ sheetReads' = sheetReads + 1
  /\ UNCHANGED <<rows, readyRows, results, response, runs, sheet, posts, publishVars, restVars>>

\* lines 201-216: a cron secret or an API key, and no session token: the
\* token is asked for
KeyAuthorized ==
  /\ getPhase = "called"
  /\ Authorized(request)
  /\ ~Truthy(request.session)
  /\ request' = NoRequest
  /\ getPhase' = "getAccessTokenFromRefreshToken"
  /\ UNCHANGED <<rows, readyRows, results, response, runs, sheetReads, sheet, posts,
                 publishVars, restVars>>

\* lines 216-229: there is a token; the sheet is read
RefreshTokenResolves ==
  /\ getPhase = "getAccessTokenFromRefreshToken"
  /\ getPhase' = "getContentRepoData"
  /\ sheetReads' = sheetReads + 1
  /\ UNCHANGED <<request, rows, readyRows, results, response, runs, sheet, posts,
                 publishVars, restVars>>

\* lines 216-222: there is no token
RefreshTokenMissing ==
  /\ getPhase = "getAccessTokenFromRefreshToken"
  /\ Respond(500, "Could not obtain Google access token. Set GOOGLE_REFRESH_TOKEN env var.")
  /\ UNCHANGED request

\* lines 229 and 270-275: getContentRepoData rejects
SheetRejects ==
  /\ getPhase = "getContentRepoData"
  /\ Respond(500, "Failed to fetch data from Google Sheets. Make sure you have access to the Content Repo.")
  /\ UNCHANGED request

\* lines 229-246: no row of the sheet is ready
NothingReady ==
  /\ getPhase = "getContentRepoData"
  /\ ReadyRows(RowsOf(sheet)) = <<>>
  /\ rows' = RowsOf(sheet)
  /\ response' = Response(200, "")
  /\ getPhase' = "responded"
  /\ UNCHANGED <<request, readyRows, results, runs, sheetReads, sheet, posts,
                 publishVars, restVars>>

\* line 252 and lines 59-63: publishRow is called with the k-th ready row
PublishRow(ready, k) ==
  /\ row' = ready[k]
  /\ publishPhase' = "called"
  /\ exported' = ""
  /\ body' = ""
  /\ success' = FALSE
  /\ publishError' = ""
  /\ postId' = 0
  /\ featuredMediaId' = 0
  /\ createPostCalls' = 0
  /\ updatePostCalls' = 0
  /\ updateRowCalls' = 0

\* lines 229-252: there are ready rows; the first is published
SomeReady ==
  /\ getPhase = "getContentRepoData"
  /\ ReadyRows(RowsOf(sheet)) # <<>>
  /\ rows' = RowsOf(sheet)
  /\ readyRows' = ReadyRows(RowsOf(sheet))
  /\ getPhase' = "publishRow"
  /\ PublishRow(readyRows', 1)
  /\ UNCHANGED <<request, results, response, runs, sheetReads, sheet, posts, restVars>>

\* lines 179-185 and 186-189: what publishRow returns
PublishResult ==
  [row |-> row.rowIndex, success |-> success,
   postId |-> (IF success THEN postId ELSE 0), error |-> publishError]

\* lines 250-256: the result is kept, the next ready row is published
NextRow ==
  /\ getPhase = "publishRow"
  /\ publishPhase = "returned"
  /\ Len(results) + 1 < Len(readyRows)
  /\ results' = Append(results, PublishResult)
  /\ PublishRow(readyRows, Len(results) + 2)
  /\ UNCHANGED <<request, getPhase, rows, readyRows, response, runs, sheetReads, sheet, posts,
                 restVars>>

\* publishRow has returned and is not called again
PublishRowDone ==
  /\ row' = NoRow
  /\ publishPhase' = "idle"
  /\ exported' = ""
  /\ body' = ""
  /\ success' = FALSE
  /\ publishError' = ""
  /\ postId' = 0
  /\ featuredMediaId' = 0
  /\ createPostCalls' = 0
  /\ updatePostCalls' = 0
  /\ updateRowCalls' = 0

\* results.filter(...).length
Count(rs, flag) == Len(SelectSeq(rs, LAMBDA x : x.success = flag))

\* lines 250-269: the result of the last ready row is kept, the handler
\* answers
LastRow ==
  /\ getPhase = "publishRow"
  /\ publishPhase = "returned"
  /\ Len(results) + 1 = Len(readyRows)
  /\ results' = Append(results, PublishResult)
  /\ response' = [status |-> 200, error |-> "", processed |-> Len(results'),
                  successful |-> Count(results', TRUE), failed |-> Count(results', FALSE)]
  /\ getPhase' = "responded"
  /\ PublishRowDone
  /\ UNCHANGED <<request, rows, readyRows, runs, sheetReads, sheet, posts, restVars>>

NextGet ==
  \/ Get
  \/ Unauthorized
  \/ SessionAuthorized
  \/ KeyAuthorized
  \/ RefreshTokenResolves
  \/ RefreshTokenMissing
  \/ SheetRejects
  \/ NothingReady
  \/ SomeReady
  \/ NextRow
  \/ LastRow
  \/ NextPublish

SpecGet == InitGet /\ [][NextGet]_vars

----------------------------------------------------------------------------
(* POST /api/documents and POST /api/publish as a state machine: a document *)
(* of the sheet is processed and stored, a stored document is published     *)

\* the documentId of the requests
DocumentIds == {"sheet-2", "sheet-3", "sheet-4", "sheet-9"}

\* no session, a session without an access token, a session with one
Sessions == {Null, Some(""), Some("token")}

MaxRequests == 3

\* google-sheets.ts line 136
DocumentId(rowIndex) == "sheet-" \o ToString(rowIndex)

\* lines 92 and 99: the rows of the sheet with the id of the request
FoundRows(sh, documentId) ==
  SelectSeq(RowsOf(sh), LAMBDA r : DocumentId(r.rowIndex) = documentId)

\* lines 105-112
DriveFileId(blogLink) ==
  IF extractDriveFileId(blogLink) # Null THEN extractDriveFileId(blogLink)
  ELSE IF blogLink # "" /\ IsRawId(Trim(blogLink)) THEN Some(Trim(blogLink))
  ELSE Null

\* lines 162-168 and google-sheets.ts lines 135-159: the document that is
\* stored for the row r
ProcessedDoc(r, text, image) ==
  [id |-> DocumentId(r.rowIndex), status |-> "processed", content |-> text,
   wpPostId |-> ExistingWpId(r.wordpressId), sheetRowIndex |-> r.rowIndex,
   imageData |-> image, tags |-> (r.primaryKeyword # "")]

\* Map.prototype.set
MapSet(store, document) == {d \in store : d.id # document.id} \cup {document}

InitDocuments ==
  /\ docRequest = NoDocRequest
  /\ docPhase = "idle"
  /\ docContent = ""
  /\ driveError = FALSE
  /\ imageData = FALSE
  /\ docResponse = 0
  /\ processedDocuments = {}
  /\ pubRequest = NoPubRequest
  /\ pubPhase = "idle"
  /\ pubMediaId = 0
  /\ pubResponse = NoPubResponse
  /\ requests = 0
  /\ NoGet
  /\ sheet \in Sheets
  /\ posts = <<>>
  /\ NoPublish
  /\ NoClean
  /\ NoProcess
  /\ NoTitle
  /\ NoMarkdown
  /\ NoCalls

elseVars ==
  <<cleanVars, processVars, titleVars, markdownVars, publishVars, getVars, callVars>>

pubVars == <<pubRequest, pubPhase, pubMediaId, pubResponse>>

\* no handler is at work
AtRest == docPhase \in {"idle", "responded"} /\ pubPhase \in {"idle", "responded"}

\* the row of the request
DocRow == FoundRows(sheet, docRequest.documentId)[1]

\* part_001 line 70: a request comes in
PostDocument ==
  /\ AtRest
  /\ requests < MaxRequests
  /\ requests' = requests + 1
  /\ docRequest' \in [session : Sessions, documentId : DocumentIds]
  /\ docPhase' = "called"
  /\ docContent' = ""
  /\ driveError' = FALSE
  /\ imageData' = FALSE
  /\ docResponse' = 0
  /\ UNCHANGED <<processedDocuments, pubVars, sheet, posts, elseVars>>

\* return NextResponse.json(..., { status: code })
DocRespond(code) ==
  /\ docResponse' = code
  /\ docPhase' = "responded"
  /\ UNCHANGED <<docRequest, docContent, driveError, imageData, processedDocuments,
                 requests, pubVars, sheet, posts, elseVars>>

\* lines 73-75
DocUnauthorized ==
  /\ docPhase = "called"
  /\ docRequest.session = Null
  /\ DocRespond(401)

\* lines 79-84
DocNotConnected ==
  /\ docPhase = "called"
  /\ docRequest.session = Some("")
  /\ DocRespond(400)

\* lines 86-90: the sheet is read
DocReadSheet ==
  /\ docPhase = "called"
  /\ Truthy(docRequest.session)
  /\ docPhase' = "getContentRepoData"
  /\ UNCHANGED <<docRequest, docContent, driveError, imageData, docResponse,
                 processedDocuments, requests, pubVars, sheet, posts, elseVars>>

\* lines 90 and 173-178: getContentRepoData rejects
DocSheetRejects ==
  /\ docPhase = "getContentRepoData"
  /\ DocRespond(500)

\* lines 92-96: the sheet has no row of that id
DocNotFound ==
  /\ docPhase = "getContentRepoData"
  /\ FoundRows(sheet, docRequest.documentId) = <<>>
  /\ DocRespond(404)

\* lines 161-172: the document is stored and returned
Store(text, image) ==
  /\ docContent' = text
  /\ imageData' = image
  /\ processedDocuments' = MapSet(processedDocuments, ProcessedDoc(DocRow, text, image))
  /\ docResponse' = 200
  /\ docPhase' = "responded"
  /\ UNCHANGED <<docRequest, requests, pubVars, sheet, posts, elseVars>>

\* lines 142-145: the featured image is downloaded
Download(text) ==
  /\ docContent' = text
  /\ docPhase' = "downloadFeaturedImage"
  /\ UNCHANGED <<docRequest, imageData, docResponse, processedDocuments, requests,
                 pubVars, sheet, posts, elseVars>>

\* lines 133-172: the content is settled
WithContent(text) ==
  IF DocRow.photoLink # "" THEN Download(text) ELSE Store(text, FALSE)

\* lines 92-117 and 133-172: the row has no Drive link; there is no content
DocWithoutDriveLink ==
  /\ docPhase = "getContentRepoData"
  /\ FoundRows(sheet, docRequest.documentId) # <<>>
  /\ DriveFileId(DocRow.blogLink) = Null
  /\ WithContent("")
  /\ UNCHANGED driveError

\* lines 92-120: getDocumentContent is called
DocFetch ==
  /\ docPhase = "getContentRepoData"
  /\ FoundRows(sheet, docRequest.documentId) # <<>>
  /\ DriveFileId(DocRow.blogLink) # Null
  /\ docPhase' = "getDocumentContent"
  /\ UNCHANGED <<docRequest, docContent, driveError, imageData, docResponse,
                 processedDocuments, requests, pubVars, sheet, posts, elseVars>>

\* lines 120-126 and 133-172: the document is normalized and its title is
\* taken out
DocFetchResolves ==
  /\ docPhase = "getDocumentContent"
  /\ \E rawHtml \in RawHtmls : WithContent(PublishedBody(rawHtml))
  /\ UNCHANGED driveError

\* lines 127-130 and 133-172: getDocumentContent rejects; the handler goes on
\* without content
DocFetchRejects ==
  /\ docPhase = "getDocumentContent"
  /\ driveError' = TRUE
  /\ WithContent("")

\* lines 145-172: the image is there
DocDownloadSucceeds ==
  /\ docPhase = "downloadFeaturedImage"
  /\ Store(docContent, TRUE)
  /\ UNCHANGED driveError

\* lines 145-172: the download returns without an image, or rejects
DocDownloadFails ==
  /\ docPhase = "downloadFeaturedImage"
  /\ Store(docContent, FALSE)
  /\ UNCHANGED driveError

docLocals == <<docRequest, docPhase, docContent, driveError, imageData, docResponse>>

\* route.ts line 341: a stored document is posted to be published
PostPublish ==
  /\ AtRest
  /\ requests < MaxRequests
  /\ requests' = requests + 1
  /\ pubRequest' \in
       [session : Sessions, document : processedDocuments, status : {"draft", "publish"}]
  /\ pubPhase' = "called"
  /\ pubMediaId' = 0
  /\ pubResponse' = NoPubResponse
  /\ UNCHANGED <<docLocals, processedDocuments, sheet, posts, elseVars>>

\* return NextResponse.json({ error: message }, { status: code })
PubRespond(code, message) ==
  /\ pubResponse' = [NoPubResponse EXCEPT !.status = code, !.error = message]
  /\ pubPhase' = "responded"
  /\ UNCHANGED <<pubRequest, pubMediaId, requests, docLocals, processedDocuments,
                 sheet, posts, elseVars>>

\* the handler goes on to await the collaborator of the next phase
PubAwait(next) ==
  /\ pubPhase' = next
  /\ UNCHANGED <<pubRequest, pubResponse, requests, docLocals, processedDocuments,
                 sheet, posts, elseVars>>

\* lines 344-346
PubUnauthorized ==
  /\ pubPhase = "called"
  /\ pubRequest.session = Null
  /\ PubRespond(401, "Unauthorized")

\* lines 360-365: the document has no content
PubNotProcessed ==
  /\ pubPhase = "called"
  /\ pubRequest.session # Null
  /\ pubRequest.document.content = ""
  /\ PubRespond(400, "Document must be processed before publishing")

\* lines 360-395: the document has content; its image is uploaded when it
\* has one, its category is looked up otherwise
PubAccepted ==
  /\ pubPhase = "called"
  /\ pubRequest.session # Null
  /\ pubRequest.document.content # ""
  /\ PubAwait(IF pubRequest.document.imageData THEN "uploadFeaturedImage"
              ELSE "getOrCreateCategory")
  /\ UNCHANGED pubMediaId

\* lines 375-395: the upload returns a media id
PubUploadSucceeds ==
  /\ pubPhase = "uploadFeaturedImage"
  /\ pubMediaId' = 55
  /\ PubAwait("getOrCreateCategory")

\* lines 375-395: the upload returns without a media id, or rejects
PubUploadFails ==
  /\ pubPhase = "uploadFeaturedImage"
  /\ PubAwait("getOrCreateCategory")
  /\ UNCHANGED pubMediaId

\* lines 436-442
PubCallWordPress ==
  PubAwait(IF pubRequest.document.wpPostId # 0 THEN "updatePost" ELSE "createPost")

\* lines 395-399: the category is there, the document has tags
PubCategoryResolvesWithTags ==
  /\ pubPhase = "getOrCreateCategory"
  /\ pubRequest.document.tags
  /\ PubAwait("getOrCreateTags")
  /\ UNCHANGED pubMediaId

\* lines 395-442: the category is there, the document has no tags
PubCategoryResolves ==
  /\ pubPhase = "getOrCreateCategory"
  /\ ~pubRequest.document.tags
  /\ PubCallWordPress
  /\ UNCHANGED pubMediaId

\* lines 398-442
PubTagsResolve ==
  /\ pubPhase = "getOrCreateTags"
  /\ PubCallWordPress
  /\ UNCHANGED pubMediaId

\* lines 395-399 and 473-479: getOrCreateCategory or getOrCreateTags rejects
PubTaxonomyRejects ==
  /\ pubPhase \in {"getOrCreateCategory", "getOrCreateTags"}
  /\ \E e \in Rejections : PubRespond(500, e)

\* lines 444-446
PubWordPressFails ==
  /\ pubPhase \in {"createPost", "updatePost"}
  /\ PubRespond(500, "WordPress API error: 500 - ")

\* the id WordPress returns: of a new post after createPost, of the document
\* after updatePost
PubPostId ==
  IF pubPhase = "createPost" THEN 100 + Len(posts) + 1 ELSE pubRequest.document.wpPostId

\* lines 466-472
Published ==
  [status |-> 200, postId |-> PubPostId, isUpdate |-> (pubRequest.document.wpPostId # 0),
   error |-> ""]

\* lines 444-458: WordPress returns success; the session has an access
\* token, the row of the sheet is updated
PubWordPressSucceeds ==
  /\ pubPhase \in {"createPost", "updatePost"}
  /\ Truthy(pubRequest.session)
  /\ posts' = (IF pubPhase = "createPost"
               THEN Append(posts, pubRequest.document.sheetRowIndex) ELSE posts)
  /\ pubResponse' = Published
  /\ pubPhase' = "updateRowAfterPublish"
  /\ UNCHANGED <<pubRequest, pubMediaId, requests, docLocals, processedDocuments, sheet,
                 elseVars>>

\* lines 444-472: WordPress returns success; the session has no access
\* token, the sheet is left alone
PubWordPressSucceedsUnconnected ==
  /\ pubPhase \in {"createPost", "updatePost"}
  /\ ~Truthy(pubRequest.session)
  /\ posts' = (IF pubPhase = "createPost"
               THEN Append(posts, pubRequest.document.sheetRowIndex) ELSE posts)
  /\ pubResponse' = Published
  /\ pubPhase' = "responded"
  /\ UNCHANGED <<pubRequest, pubMediaId, requests, docLocals, processedDocuments, sheet,
                 elseVars>>

\* line 452
SheetStatus(status) == IF status = "publish" THEN "Published" ELSE "Draft"

\* lines 452-472: the row is updated
PubUpdateRowResolves ==
  /\ pubPhase = "updateRowAfterPublish"
  /\ sheet' = WriteRow(sheet, pubRequest.document.sheetRowIndex,
                       SheetStatus(pubRequest.status), pubResponse.postId)
  /\ pubPhase' = "responded"
  /\ UNCHANGED <<pubRequest, pubMediaId, pubResponse, requests, docLocals,
                 processedDocuments, posts, elseVars>>

\* lines 460-472: updateRowAfterPublish rejects; the handler answers all the
\* same
PubUpdateRowRejects ==
  /\ pubPhase = "updateRowAfterPublish"
  /\ pubPhase' = "responded"
  /\ UNCHANGED <<pubRequest, pubMediaId, pubResponse, requests, docLocals,
                 processedDocuments, sheet, posts, elseVars>>

NextDocuments ==
  \/ PostDocument
  \/ DocUnauthorized
  \/ DocNotConnected
  \/ DocReadSheet
  \/ DocSheetRejects
  \/ DocNotFound
  \/ DocWithoutDriveLink
  \/ DocFetch
  \/ DocFetchResolves
  \/ DocFetchRejects
  \/ DocDownloadSucceeds
  \/ DocDownloadFails
  \/ PostPublish
  \/ PubUnauthorized
  \/ PubNotProcessed
  \/ PubAccepted
  \/ PubUploadSucceeds
  \/ PubUploadFails
  \/ PubCategoryResolvesWithTags
  \/ PubCategoryResolves
  \/ PubTagsResolve
  \/ PubTaxonomyRejects
  \/ PubWordPressFails
  \/ PubWordPressSucceeds
  \/ PubWordPressSucceedsUnconnected
  \/ PubUpdateRowResolves
  \/ PubUpdateRowRejects

SpecDocuments == InitDocuments /\ [][NextDocuments]_vars

----------------------------------------------------------------------------
(* Calls made side by side: each call runs until it awaits a collaborator,  *)
(* the promise settles at some later time, and the call goes on after that; *)
(* in between, the other calls take their steps                             *)

MaxCalls == 2

\* a promise that resolves with value, a promise that rejects with it
Resolves(value) == [ok |-> TRUE, value |-> value]

Rejects(value) == [ok |-> FALSE, value |-> value]

\* the calls: the function called, its arguments, whether the import of
\* pdf-parse resolves, and what mammoth.convertToHtml or pdfParse settles with
CallInputs ==
  { [kind |-> "cleanHtml", mimeType |-> "", fileName |-> "",
     text |-> "<p class=\"c\">Intro</p> <p>SEO:</p><p>x</p>",
     imports |-> TRUE, delivers |-> Resolves("")],
    [kind |-> "extractTitleFromContent", mimeType |-> "", fileName |-> "",
     text |-> "<h1>A &amp; B</h1><p>x</p>", imports |-> TRUE, delivers |-> Resolves("")],
    [kind |-> "processDocument", mimeType |-> "text/markdown", fileName |-> "post.md",
     text |-> "---\ntitle: T\n---\n\n# Body\n", imports |-> TRUE, delivers |-> Resolves("")],
    [kind |-> "processDocument", mimeType |-> "image/png", fileName |-> "a.png",
     text |-> "", imports |-> TRUE, delivers |-> Resolves("")],
    [kind |-> "processDocument", mimeType |-> "application/msword", fileName |-> "a.doc",
     text |-> "", imports |-> TRUE,
     delivers |-> Resolves(" <p>Body <span>text</span></p><hr><p>meta</p> ")],
    [kind |-> "processDocument", mimeType |-> "application/msword", fileName |-> "b.doc",
     text |-> "", imports |-> TRUE, delivers |-> Rejects("not a valid file")],
    [kind |-> "processDocument", mimeType |-> PdfType, fileName |-> "a.pdf",
     text |-> "", imports |-> TRUE, delivers |-> Resolves("  Page 1\n\n---\nNotes:\n")],
    [kind |-> "processDocument", mimeType |-> PdfType, fileName |-> "b.pdf",
     text |-> "", imports |-> FALSE, delivers |-> Resolves("Body")] }

\* a call that has just been made
Called(input) ==
  [input |-> input, phase |-> "called", resolved |-> Null, result |-> Null,
   error |-> "", interleaved |-> FALSE]

InitCalls ==
  /\ calls \in [1..MaxCalls -> {Called(input) : input \in CallInputs}]
  /\ NoClean
  /\ NoProcess
  /\ NoTitle
  /\ NoMarkdown
  /\ NoPublish
  /\ NoAuto
  /\ NoDocs

\* return value
Returned(c, value) == [c EXCEPT !.phase = "returned", !.result = Some(value)]

\* throw e
Thrown(c, e) == [c EXCEPT !.phase = "thrown", !.error = e]

\* await the collaborator of the phase
Awaiting(c, collaborator) == [c EXCEPT !.phase = collaborator, !.resolved = Null]

\* the phases in which a call is suspended
Suspended == {"convertToHtml", "import", "pdfParse"}

\* the call awaits a collaborator before it returns (lines 14-19)
Suspends(c) ==
  c.input.kind = "processDocument" /\ c.input.mimeType \in WordTypes \cup {PdfType}

\* lines 9-34, 78 and 187: a call that returns or throws without an await
RunToEnd(c) ==
  IF c.input.kind = "cleanHtml" THEN Returned(c, cleanHtml(c.input.text))
  ELSE IF c.input.kind = "extractTitleFromContent"
       THEN Returned(c, extractTitleFromContent(c.input.text))
  ELSE IF c.input.mimeType = GoogleDocType
       THEN Returned(c, cleanGoogleDocsHtml(c.input.text))
  ELSE IF c.input.mimeType \in MarkdownTypes THEN Returned(c, processMarkdown(c.input.text))
  ELSE IF c.input.mimeType = PlainTextType THEN Returned(c, c.input.text)
  ELSE IF EndsWith(c.input.fileName, ".md") THEN Returned(c, processMarkdown(c.input.text))
  ELSE Thrown(c, "Unsupported file type: " \o c.input.mimeType)

\* what the collaborator the call awaits settles with
Settlement(c) ==
  IF c.phase # "import" THEN c.input.delivers
  ELSE IF c.input.imports THEN Resolves("pdf-parse")
  ELSE Rejects("Cannot find module 'pdf-parse'")

\* what the continuation of the first call to settle is given
AwaitedByFirst(cs, i) ==
  IF cs[1].resolved # Null THEN cs[1].resolved[1] ELSE cs[i].resolved[1]

\* lines 61, 67, 68: what the await of call i evaluates to
Awaited(cs, i) == cs[i].resolved[1]

\* lines 61-62 and 67-69: the call goes on after its await
Resumed(c, settled) ==
  IF ~settled.ok THEN Thrown(c, settled.value)
  ELSE IF c.phase = "convertToHtml" THEN Returned(c, cleanHtml(settled.value))
  ELSE IF c.phase = "import" THEN Awaiting(c, "pdfParse")
  ELSE Returned(c, settled.value)

\* another call than call i is suspended
OthersSuspended(i) == \E j \in DOMAIN calls : j # i /\ calls[j].phase \in Suspended

elsewhere ==
  <<cleanVars, processVars, titleVars, markdownVars, publishVars, autoVars, docVars>>

\* a call that awaits nothing runs to its end
RunCall(i) ==
  /\ calls[i].phase = "called"
  /\ ~Suspends(calls[i])
  /\ calls' = [calls EXCEPT ![i] = RunToEnd(calls[i])]
  /\ UNCHANGED elsewhere

\* lines 16 and 61, 19 and 67: the call runs up to its first await
SuspendCall(i) ==
  /\ calls[i].phase = "called"
  /\ Suspends(calls[i])
  /\ calls' = [calls EXCEPT ![i] =
                 Awaiting(calls[i], IF calls[i].input.mimeType = PdfType THEN "import"
                                    ELSE "convertToHtml")]
  /\ UNCHANGED elsewhere

\* the promise the call awaits settles
Settle(i) ==
  /\ calls[i].phase \in Suspended
  /\ calls[i].resolved = Null
  /\ calls' = [calls EXCEPT ![i].resolved = Some(Settlement(calls[i]))]
  /\ UNCHANGED elsewhere

\* the call goes on with what its promise has settled with
Resume(i) ==
  /\ calls[i].phase \in Suspended
  /\ calls[i].resolved # Null
  /\ calls' = [calls EXCEPT ![i] =
                 [Resumed(calls[i], Awaited(calls, i)) EXCEPT
                    !.interleaved = calls[i].interleaved \/ OthersSuspended(i)]]
  /\ UNCHANGED elsewhere

NextCalls ==
  \E i \in 1..MaxCalls : RunCall(i) \/ SuspendCall(i) \/ Settle(i) \/ Resume(i)

SpecCalls == InitCalls /\ [][NextCalls]_vars

----------------------------------------------------------------------------
(* Claims about cleanHtml *)

\* the tags of s from position i on, as a scan with tagPattern finds them
\* from left to right: the positions they start at
RECURSIVE TagsFrom(_, _)
TagsFrom(s, i) ==
  LET j == First({m \in i..Len(s) : TagAt(s, m)[3] > 0})
  IN  IF j = 0 THEN {} ELSE {j} \cup TagsFrom(s, TagAt(s, j)[3] + 1)

TagsOf(s) == TagsFrom(s, 1)

\* the name of the tag of s at position i, in lower case
TagNameAt(s, i) == ToLower(SubSeq(s, TagAt(s, i)[1], TagAt(s, i)[2] - 1))

\* what the tag of s at position i holds between its name and its >
TagRestAt(s, i) == SubSeq(s, TagAt(s, i)[2], TagAt(s, i)[3] - 1)

\* C1: what cleanHtml returns holds no tag whose name is outside the allowed
\* set, whatever the input, also when the removal of one tag joins the text
\* around it into a new tag
C1_AllowListClosure ==
  pc # "input" => \A i \in TagsOf(cleaned) : TagNameAt(cleaned, i) \in allowedTags

\* rest is one attribute, href, with its value in double quotes
IsHrefOnly(rest) ==
  /\ LitAt(rest, 1, " href=\"")
  /\ IndexFrom(rest, "\"", 8) = Len(rest)

\* rest, the part of a tag after its name, holds an attribute: white space
\* and a name after it
HasAttribute(rest) ==
  \E j \in 1..Len(rest) :
    CharAt(rest, j) \in WS /\ CharAt(rest, j + 1) \notin WS \cup {"/", ""}

\* C2: no tag of what cleanHtml returns carries an attribute, except that an
\* a tag may carry exactly one, href
C2_OnlyHrefSurvives ==
  pc # "input" =>
    \A i \in TagsOf(cleaned) :
      \/ ~HasAttribute(TagRestAt(cleaned, i))
      \/ /\ TagNameAt(cleaned, i) = "a"
         /\ CharAt(cleaned, i + 1) # "/"
         /\ IsHrefOnly(TagRestAt(cleaned, i))

\* words that stand in the text of the documents
Words == {"Intro", "SEO", "Title", "Meta", "Info", "Notes", "Tags"}

\* C3: when the input holds an <hr> element, cleanHtml drops it and all that
\* follows the first one: the step-1 result is a part of the input before it,
\* the output is the output for the part of the input before it, no <hr and
\* no word that stands only after it is in the output; and the text of a
\* paragraph before it, when no other marker stands before it, is in the output
C3_HrTruncation ==
  pc # "input" /\ HrMatch(doc) > 0 =>
    LET before == CutAt(doc, HrMatch(doc))
    IN  /\ Len(truncated) <= Len(before)
        /\ truncated = SubSeq(doc, 1, Len(truncated))
        /\ cleaned = cleanHtml(before)
        /\ ~Contains(ToLower(cleaned), "<hr")
        /\ \A w \in Words : ~Contains(before, w) => ~Contains(cleaned, w)
        /\ RemoveMetaSections(before) = before =>
             \A w \in Words :
               Contains(before, "<p>" \o w \o "</p>") => Contains(cleaned, w)

\* a document with a paragraph, an <hr> and a meta section has been cleaned:
\* the paragraph is what is left
C3_Witness ==
  /\ pc = "cleaned"
  /\ doc = "<p>Intro</p><hr><p>SEO:</p>"
  /\ truncated = "<p>Intro</p>"
  /\ cleaned = "<p>Intro</p>"

\* the labels of the meta sections, each as its words
Labels == {metaHeadingWords[k] : k \in 1..Len(metaHeadings)}

\* s without its tags
StripTags(s) == ReplaceAll(s, Kind("anyTag", ""))

\* the text between the tag that starts at position i and the first closing
\* tag after it (closer is "</p" or "</h"): its words, in lower case
ElementWords(s, i, closer) ==
  LET g == IndexFrom(s, ">", i)
      e == IF g > 0 THEN IndexFromCI(s, closer, g + 1) ELSE 0
  IN  IF e = 0 THEN <<>> ELSE HeadingWords(ToLower(StripTags(SubSeq(s, g + 1, e - 1))))

\* the text of the bold run that starts the paragraph at position i
BoldWords(s, i) ==
  LET g == IndexFrom(s, ">", i)
      b == SkipWs(s, g + 1)
  IN  IF g > 0 /\ LitAtCI(s, b, "<b>") THEN ElementWords(s, b, "</b>")
      ELSE IF g > 0 /\ LitAtCI(s, b, "<strong>") THEN ElementWords(s, b, "</strong>")
      ELSE <<>>

\* a paragraph or a heading starts at position i of s, and its text, or the
\* text of the bold run it starts with, is a label
LabelElementAt(s, i) ==
  \/ /\ LitAtCI(s, i, "<p")
     /\ CharAt(s, i + 2) \in WS \cup {">"}
     /\ \E l \in Labels : l \in {ElementWords(s, i, "</p>"), BoldWords(s, i)}
  \/ /\ LitAtCI(s, i, "<h")
     /\ CharAt(s, i + 2) \in Digits
     /\ CharAt(s, i + 3) \in WS \cup {">"}
     /\ \E l \in Labels : l = ElementWords(s, i, "</h")

\* C4: when the input holds a heading, a paragraph or a bold run at the start
\* of a paragraph whose text is a label, whatever the case of its letters and
\* its white space, step 1 cuts the input at that element or before it, and
\* the output holds no word that stands only from that element on
C4_LabelTruncation ==
  pc # "input" =>
    \A i \in 1..Len(doc) :
      LabelElementAt(doc, i) =>
        /\ Len(truncated) < i
        /\ \A w \in Words : ~Contains(CutAt(doc, i), w) => ~Contains(cleaned, w)

\* where the markers of s other than <hr> start: each label as a paragraph,
\* a heading or a bold run, and the runs of separator characters
LabelMarkers(s) ==
  UNION {{pPattern(s, l), hPattern(s, l), bPattern(s, l)} : l \in Labels}

SeparatorMarkers(s) ==
  {SeparatorMatch(s, {"-", "_", "="}), SeparatorMatch(s, {"*"})}

\* where the earliest marker of a set of positions starts, 0 when there is none
Earliest(positions) == First(positions \ {0})

CutAtEarliestOf(before, markers) ==
  /\ truncated = CutAt(before, Earliest(markers))
  /\ truncated = SubSeq(doc, 1, Len(truncated))
  /\ (HrMatch(doc) = 0 /\ markers = {0} => truncated = doc)

AllowListed(s) == \A i \in TagsOf(s) : TagNameAt(s, i) \in allowedTags

\* C6: for a document whose tags are all in the allowed set, cleaning what
\* cleanHtml returned changes nothing
C6_Idempotence ==
  pc = "recleaned" /\ AllowListed(doc) => recleaned = cleaned

----------------------------------------------------------------------------
(* Claims about processDocument *)

\* the seven declared types the dispatch table names
SevenTypes ==
  { "application/vnd.google-apps.document",
    "application/vnd.openxmlformats-officedocument.wordprocessingml.document",
    "application/msword",
    "application/pdf",
    "text/markdown",
    "text/x-markdown",
    "text/plain" }

\* C7: a call fails with the unsupported-type error exactly when its declared
\* type is none of the seven strings, letter for letter, and its file name
\* does not end in .md; with such a type and a file name that ends in .md the
\* file is processed as markdown; with one of the seven types the call never
\* fails with that error, whatever the file name
C7_UnsupportedExactlyWhenUnrecognized ==
  phase # "called" =>
    /\ (phase = "thrown" /\ error = "Unsupported file type: " \o mimeType)
         <=> (mimeType \notin SevenTypes /\ ~EndsWith(fileName, ".md"))
    /\ mimeType \notin SevenTypes /\ EndsWith(fileName, ".md") =>
         phase = "returned" /\ result = processMarkdown(content)

\* a declared type and a file name that differ from a recognized type and
\* from .md only in the case of their letters: the call has failed
C7_Witness ==
  /\ phase = "thrown"
  /\ mimeType = "TEXT/PLAIN"
  /\ fileName = "post.MD"
  /\ error = "Unsupported file type: TEXT/PLAIN"

\* block is a frontmatter block: it starts with a line ---, ends with a line
\* --- and holds no such line in between
IsFrontmatter(block) ==
  /\ LitAt(block, 1, "---\n")
  /\ Len(block) >= 9
  /\ IndexFrom(block, "\n---\n", 5) = Len(block) - 4

\* the length of the frontmatter block s starts with, 0 when it starts with none
LeadingFrontmatter(s) == First({k \in 1..Len(s) : IsFrontmatter(SubSeq(s, 1, k))})

\* s without the frontmatter block it starts with, and without the white
\* space at its ends
BodyText(s) == Trim(SubSeq(s, LeadingFrontmatter(s) + 1, Len(s)))

C9_PdfTextAsExtracted ==
  phase = "returned" /\ mimeType = "application/pdf" =>
    /\ result = resolved
    /\ mammothCalls = 0

\* the extracted text holds white space at its ends, markers and tags, and
\* is returned as it is
C9_Witness ==
  /\ phase = "returned"
  /\ mimeType = "application/pdf"
  /\ resolved = "  Page 1\n\n---\nNotes:\n<p>x</p> \n"
  /\ result = "  Page 1\n\n---\nNotes:\n<p>x</p> \n"
  /\ cleanHtml(resolved) # resolved

\* C10: for the two word types the call returns cleanHtml of what the one
\* call of mammoth.convertToHtml resolved with; when a collaborator rejects,
\* the call fails with the collaborator's error, no collaborator is called a
\* second time and nothing is returned
C10_ConvertOnceAndPropagate ==
  /\ mammothCalls <= 1
  /\ pdfParseCalls <= 1
  /\ phase = "returned" /\ mimeType \in {"application/msword",
         "application/vnd.openxmlformats-officedocument.wordprocessingml.document"} =>
       /\ mammothCalls = 1
       /\ pdfParseCalls = 0
       /\ result = cleanHtml(resolved)
  /\ phase = "thrown" /\ mimeType \in SevenTypes =>
       /\ error \in Rejections
       /\ result = ""
       /\ mammothCalls + pdfParseCalls <= 1
       /\ mimeType = "application/pdf" \/ mammothCalls = 1

\* mammoth.convertToHtml has been called once and has rejected: the call of
\* processDocument has failed with its error
C10_Witness ==
  /\ phase = "thrown"
  /\ mimeType = "application/msword"
  /\ mammothCalls = 1
  /\ error = "not a valid file"
  /\ result = ""

----------------------------------------------------------------------------
(* Claims about extractTitleFromContent *)

\* s holds an element NAME: an open tag that starts with <NAME, and a closing
\* tag </NAME> after it
HasElement(s, name) ==
  \E i \in 1..Len(s) :
    /\ LitAtCI(s, i, "<" \o name)
    /\ \E g \in (i + Len(name) + 1)..Len(s) :
         /\ CharAt(s, g) = ">"
         /\ \E e \in (g + 1)..Len(s) : LitAtCI(s, e, "</" \o name \o ">")

\* the level of the heading the title is to come from: h1 when the input
\* holds one, h2 otherwise
TitleLevel == IF HasElement(titleInput, "h1") THEN "h1" ELSE "h2"

\* the first heading of that level: where it starts, where it ends, the
\* element and its inner markup
TitleStart == HeadingIndex(titleInput, TitleLevel)
TitleElement == HeadingMatchAt(titleInput, TitleStart, TitleLevel)
TitleEnd == TitleStart + Len(TitleElement.whole) - 1

\* the input without that element, before the final trim
WithoutTitleElement ==
  SubSeq(titleInput, 1, TitleStart - 1) \o SubSeq(titleInput, TitleEnd + 1, Len(titleInput))

\* where the h2 elements of s start
H2Starts(s) == {i \in 1..Len(s) : HeadingAt(s, i, "h2")[2] > 0}

\* where the h2 element of the input that starts at position i ends
H2End(i) == HeadingAt(titleInput, i, "h2")[2] + 4

\* the h2 element that starts at position i of the input is still an h2
\* element of the input without the title element
H2Stays(i) ==
  /\ i \notin TitleStart..TitleEnd
  /\ HeadingAt(WithoutTitleElement,
               IF i < TitleStart THEN i ELSE i - Len(TitleElement.whole), "h2")[2] > 0

\* the title comes from the first h1, and that element is what is removed
TitleFromFirstH1 ==
  /\ TitleLevel = "h1"
  /\ title = OrNull(TitleText(TitleElement.inner))
  /\ contentWithoutTitle = Trim(WithoutTitleElement)

\* C11 as stated: whenever the input holds an h1, the title comes from the
\* first h1, also with an h2 before it, the h1 element is removed and every
\* h2 element stays
C11_H1WinsEveryH2Stays ==
  (titlePc # "input" /\ HasElement(titleInput, "h1")) =>
    /\ TitleFromFirstH1
    /\ \A i \in H2Starts(titleInput) : H2Stays(i)

\* C11: whenever the input holds an h1, the title comes from the first h1,
\* also with an h2 before it, and the h1 element is removed; every h2 element
\* that does not overlap the h1 element stays as it is; the first h2 gives
\* the title only when the input holds no h1
C11_H1WinsH2OutsideStays ==
  /\ (titlePc # "input" /\ HasElement(titleInput, "h1")) =>
       /\ TitleFromFirstH1
       /\ \A i \in H2Starts(titleInput) :
            (H2End(i) < TitleStart \/ i > TitleEnd) =>
              /\ H2Stays(i)
              /\ Contains(contentWithoutTitle, SubSeq(titleInput, i, H2End(i)))
  /\ (titlePc # "input" /\ ~HasElement(titleInput, "h1") /\ HasElement(titleInput, "h2")) =>
       /\ title = OrNull(TitleText(TitleElement.inner))
       /\ contentWithoutTitle = Trim(WithoutTitleElement)

\* an h2 stands before an h1: the h1 gave the title and was removed, the h2
\* is left
C11_Witness ==
  /\ titlePc = "extracted"
  /\ titleInput = "<h2>B</h2><h1>A</h1>"
  /\ title = Some("A")
  /\ contentWithoutTitle = "<h2>B</h2>"

\* C12: for an input that holds neither an h1 element nor an h2 element the
\* title is null and contentWithoutTitle is the input, unchanged
C12_NoHeadingUnchanged ==
  (/\ titlePc # "input"
   /\ ~HasElement(titleInput, "h1")
   /\ ~HasElement(titleInput, "h2")) =>
    /\ title = Null
    /\ contentWithoutTitle = titleInput

\* a paragraph with white space after it: nothing is trimmed away
C12_Witness ==
  /\ titlePc = "extracted"
  /\ titleInput = "<p>x</p> "
  /\ title = Null
  /\ contentWithoutTitle = "<p>x</p> "

\* a heading was matched
HeadingMatched == HasElement(titleInput, "h1") \/ HasElement(titleInput, "h2")

\* C13: when the text of the matched heading is empty once its tags are
\* stripped, its entities decoded and the rest trimmed, the title is null
\* and the heading element is removed all the same
C13_EmptyTitleIsNull ==
  (titlePc # "input" /\ HeadingMatched /\ TitleText(TitleElement.inner) = "") =>
    /\ title = Null
    /\ contentWithoutTitle = Trim(WithoutTitleElement)
    /\ Len(contentWithoutTitle) < Len(titleInput)

\* a heading that holds an empty tag pair and a non-breaking space
C13_Witness ==
  /\ titlePc = "extracted"
  /\ titleInput = "<h1> <i></i>&nbsp;</h1><p>x</p>"
  /\ title = Null
  /\ contentWithoutTitle = "<p>x</p>"

\* C14: exactly one occurrence of the matched heading element is removed,
\* the matched one, which is the first occurrence of its text: apart from
\* it and the final trim the content is unchanged, and a second heading
\* with the same text later on is still there
C14_OneOccurrenceRemoved ==
  (titlePc # "input" /\ HeadingMatched) =>
    /\ IndexFrom(titleInput, TitleElement.whole, 1) = TitleStart
    /\ contentWithoutTitle = Trim(WithoutTitleElement)
    /\ IndexFrom(titleInput, TitleElement.whole, TitleEnd + 1) > 0 =>
         Contains(contentWithoutTitle, TitleElement.whole)

\* the same heading stands twice: one is left
C14_Witness ==
  /\ titlePc = "extracted"
  /\ titleInput = "<h1>A</h1><h1>A</h1>"
  /\ title = Some("A")
  /\ contentWithoutTitle = "<h1>A</h1>"

\* the elements NAME of s from position i on, as a scan from left to right
\* finds them: how many there are
RECURSIVE ElementCount(_, _, _)
ElementCount(s, name, i) ==
  LET j == First({k \in i..Len(s) : HeadingAt(s, k, name)[2] > 0})
  IN  IF j = 0 THEN 0
      ELSE 1 + ElementCount(s, name, HeadingAt(s, j, name)[2] + Len(name) + 3)

\* the h1 and h2 heading elements of s
HeadingCount(s) == ElementCount(s, "h1", 1) + ElementCount(s, "h2", 1)

\* C15: for an input with exactly one h1/h2 heading element, the extraction
\* applied to the contentWithoutTitle of a first run gives the title null
\* and the content it was given: no new heading appears
C15_Idempotence ==
  (titlePc = "extractedAgain" /\ HeadingCount(titleInput) = 1) =>
    /\ secondTitle = Null
    /\ secondContent = contentWithoutTitle

\* every occurrence of lit in s replaced by repl, from left to right
RECURSIVE ReplaceEach(_, _, _)
ReplaceEach(s, lit, repl) ==
  LET i == IndexFrom(s, lit, 1)
  IN  IF i = 0 THEN s
      ELSE SubSeq(s, 1, i - 1) \o repl \o ReplaceEach(SubSeq(s, i + Len(lit), Len(s)), lit, repl)

\* the six entities replaced, one entity after the other in this order
Decoded(s) ==
  ReplaceEach(ReplaceEach(ReplaceEach(ReplaceEach(ReplaceEach(ReplaceEach(s,
    "&nbsp;", " "), "&amp;", "&"), "&lt;", "<"), "&gt;", ">"), "&quot;", "\""), "&#39;", "'")

\* C16: the title of a matched heading is its inner markup with the nested
\* tags removed, then the occurrences of &nbsp; &amp; &lt; &gt; &quot; &#39;
\* replaced, one entity after the other in this order, by the space and
\* & < > " ', then trimmed; a text that is empty then gives null
C16_TitleIsDecodedText ==
  (titlePc # "input" /\ HeadingMatched) =>
    title = (IF Trim(Decoded(StripTags(TitleElement.inner))) = "" THEN Null
             ELSE Some(Trim(Decoded(StripTags(TitleElement.inner)))))

\* a heading with an attribute, a nested tag, an entity and white space
C16_Witness ==
  /\ titlePc = "extracted"
  /\ titleInput = "<H1 class=\"t\"> <b>Tom</b> &amp; Jerry </H1>"
  /\ title = Some("Tom & Jerry")
  /\ contentWithoutTitle = ""

----------------------------------------------------------------------------
(* Claims about processMarkdown and extractFrontmatter *)

\* C17: when the text begins with ---\n and a closing \n---\n follows the
\* opening delimiter, what processMarkdown returns is the text after the
\* first closing delimiter, trimmed: both delimiters and what is between them
\* are removed; when the text does not begin with ---\n it returns the text,
\* trimmed
C17_StripFrontmatter ==
  markdownPc # "input" =>
    /\ \A j \in 5..Len(markdown) :
         (/\ LitAt(markdown, 1, "---\n")
          /\ LitAt(markdown, j, "\n---\n")
          /\ \A k \in 5..(j - 1) : ~LitAt(markdown, k, "\n---\n")) =>
           stripped = Trim(SubSeq(markdown, j + 5, Len(markdown)))
    /\ ~LitAt(markdown, 1, "---\n") => stripped = Trim(markdown)

\* a block, and a body that holds the delimiter once more: the text is cut
\* after the first closing delimiter
C17_Witness ==
  /\ markdownPc = "stripped"
  /\ markdown = "---\nkey: v\n---\na\n---\nb"
  /\ stripped = "a\n---\nb"

\* the text opens with the line --- and a line feed and --- follow later on:
\* the leading block extractFrontmatter reads
HasLeadingBlock(s) ==
  /\ LitAt(s, 1, "---\n")
  /\ \E j \in 5..Len(s) : LitAt(s, j, "\n---")

\* the lines of that block
BlockLinesOf(s) ==
  Split(SubSeq(s, 5, First({j \in 5..Len(s) : LitAt(s, j, "\n---")}) - 1), "\n")

\* the part of a line before its first colon, trimmed
KeyOf(line) == Trim(SubSeq(line, 1, IndexFrom(line, ":", 1) - 1))

\* s without a quote character at its start and without one at its end
Unquoted(s) ==
  LET t == IF CharAt(s, 1) \in {"\"", "'"} THEN SubSeq(s, 2, Len(s)) ELSE s
  IN  IF CharAt(t, Len(t)) \in {"\"", "'"} THEN SubSeq(t, 1, Len(t) - 1) ELSE t

\* the part of a line after its first colon, trimmed and without its quotes
ValueOf(line) == Unquoted(Trim(SubSeq(line, IndexFrom(line, ":", 1) + 1, Len(line))))

\* the mapping the lines give, read is the set of the lines that are read:
\* each key with the value of the last line that carries it
MappingOf(lines, read) ==
  [ k \in {KeyOf(lines[n]) : n \in read} |->
      ValueOf(lines[CHOOSE n \in read :
                      /\ KeyOf(lines[n]) = k
                      /\ \A m \in read : KeyOf(lines[m]) = k => m <= n]) ]

\* C18 as stated: null without a leading block; otherwise every line with a
\* colon is split at its first colon into key and value
C18_EveryLineSplit ==
  markdownPc = "parsed" =>
    IF ~HasLeadingBlock(markdown) THEN parsed = Null
    ELSE parsed =
           Some(MappingOf(BlockLinesOf(markdown),
                          {n \in 1..Len(BlockLinesOf(markdown)) :
                             Contains(BlockLinesOf(markdown)[n], ":")}))

\* C18: null when the text has no leading block; otherwise the mapping of
\* the lines of the block in which a colon stands after at least one
\* character, each split at its first colon into a trimmed key and a
\* trimmed value without a quote character at its start and at its end, a
\* later line overriding an earlier one with the same key; a line without
\* a colon, a line that starts with the colon and a line with the key
\* __proto__ give no entry
C18_LinesWithKeySplit ==
  markdownPc = "parsed" =>
    IF ~HasLeadingBlock(markdown) THEN parsed = Null
    ELSE parsed =
           Some(MappingOf(BlockLinesOf(markdown),
                          {n \in 1..Len(BlockLinesOf(markdown)) :
                             /\ IndexFrom(BlockLinesOf(markdown)[n], ":", 1) > 1
                             /\ KeyOf(BlockLinesOf(markdown)[n]) # "__proto__"}))

\* the block of the example has been parsed
C18_Witness ==
  /\ markdownPc = "parsed"
  /\ markdown = "---\nkey: v\n---\nBody"
  /\ stripped = "Body"
  /\ parsed = Some([k \in {"key"} |-> "v"])

\* C19: extractFrontmatter returns a mapping exactly when processMarkdown
\* removes a block, and null exactly when it removes nothing
C19_SameBlockRecognized ==
  markdownPc = "parsed" =>
    ((parsed # Null) <=> (stripped # Trim(markdown)))

----------------------------------------------------------------------------
(* Claims about publishRow *)

\* C20: when the body is empty after normalization and title extraction,
\* publishRow goes no further: the row ends with success false and an error,
\* createPost and updatePost are never called, and neither is
\* updateRowAfterPublish
C20_EmptyBodyPublishesNothing ==
  (publishPhase \notin {"idle", "called", "getDocumentContent"} /\ body = "") =>
    /\ publishPhase = "returned"
    /\ success = FALSE
    /\ publishError # ""
    /\ createPostCalls = 0
    /\ updatePostCalls = 0
    /\ updateRowCalls = 0

\* a document that holds its title and nothing else, for a row that has a
\* WordPress id: nothing is left of it once the title is taken out
C20_Witness ==
  /\ publishPhase = "returned"
  /\ row.wordpressId = "17"
  /\ exported = "<html><body><h1>Post</h1></body></html>"
  /\ body = ""
  /\ success = FALSE
  /\ publishError = "Document has no content"
  /\ updatePostCalls = 0
  /\ updateRowCalls = 0

----------------------------------------------------------------------------
(* cleanHtml: the spacing of blocks, empty paragraphs, labels with          *)
(* attributes                                                               *)

\* the position after the closing paragraph or heading tag that starts at i,
\* 0 when none starts there
ClosingTagEnd(s, i) ==
  IF LitAt(s, i, "</p>") THEN i + 4
  ELSE IF LitAt(s, i, "</h") /\ CharAt(s, i + 3) \in Digits /\ CharAt(s, i + 4) = ">"
       THEN i + 5
  ELSE 0

\* an opening paragraph or heading tag starts at i
OpeningTagAt(s, i) ==
  \/ LitAt(s, i, "<p>")
  \/ LitAt(s, i, "<h") /\ CharAt(s, i + 2) \in Digits /\ CharAt(s, i + 3) = ">"

\* what stands between the closing tag that ends before e and the opening
\* tag that follows it
GapAfter(s, e) == SubSeq(s, e, SkipWs(s, e) - 1)

\* C22: in the output of cleanHtml, wherever a closing paragraph or heading
\* tag is directly followed by an opening paragraph or heading tag, exactly
\* two newlines stand between them (paragraph-paragraph, heading-paragraph,
\* paragraph-heading and heading-heading)
C22_BlankLineBetweenBlocks ==
  pc # "input" =>
    \A i \in 1..Len(cleaned) :
      (/\ ClosingTagEnd(cleaned, i) > 0
       /\ OpeningTagAt(cleaned, SkipWs(cleaned, ClosingTagEnd(cleaned, i))))
        => GapAfter(cleaned, ClosingTagEnd(cleaned, i)) = "\n\n"

\* an empty paragraph starts at i: <p>, white space or nothing, </p>
EmptyParagraphAt(s, i) ==
  LitAtCI(s, i, "<p>") /\ LitAtCI(s, SkipWs(s, i + 3), "</p>")

\* C23: the output of cleanHtml contains no empty paragraph, neither <p></p>
\* nor one that holds only white space, also when empty paragraphs were
\* nested and deleting one left another behind
C23_NoEmptyParagraph ==
  pc # "input" => \A i \in 1..Len(cleaned) : ~EmptyParagraphAt(cleaned, i)

\* C24: a label element ends the document where it starts, whether or not its
\* tags carry attributes: after a body paragraph, a label paragraph, a label
\* heading and a label bold run are cut off alike
C24_LabelWithAttributesTruncates ==
  (pc # "input" /\ doc \in LabelDocs) => cleaned = "<p>Intro</p>"

----------------------------------------------------------------------------
(* extractTitleFromContent: each entity decoded once *)

Entities ==
  << <<"&nbsp;", " ">>, <<"&amp;", "&">>, <<"&lt;", "<">>,
     <<"&gt;", ">">>, <<"&quot;", "\"">>, <<"&#39;", "'">> >>

\* the entities that stand at the start of s
EntitiesAt(s) == {k \in 1..Len(Entities) : LitAt(s, 1, Entities[k][1])}

\* s read once from left to right: an entity gives its character, and what
\* it gave is not read again
RECURSIVE DecodedOnce(_)
DecodedOnce(s) ==
  IF s = "" THEN ""
  ELSE IF EntitiesAt(s) = {} THEN CharAt(s, 1) \o DecodedOnce(SubSeq(s, 2, Len(s)))
  ELSE Entities[First(EntitiesAt(s))][2]
         \o DecodedOnce(SubSeq(s, Len(Entities[First(EntitiesAt(s))][1]) + 1, Len(s)))

\* C30: the title of a matched heading is its text with every occurrence of
\* an entity decoded exactly once, whatever the order of the six entities:
\* the text &amp;lt; gives the title &lt;
C30_EntitiesDecodedOnce ==
  (titlePc # "input" /\ HeadingMatched) =>
    title = (IF Trim(DecodedOnce(StripTags(TitleElement.inner))) = "" THEN Null
             ELSE Some(Trim(DecodedOnce(StripTags(TitleElement.inner)))))

----------------------------------------------------------------------------
(* The auto-publish route: authorization, the sheet, the posts *)

\* the token a request presents in its Authorization header: the header
\* without its 'Bearer ' prefix; none when there is no header
PresentedToken(authorization) ==
  IF authorization = Null THEN Null
  ELSE IF LitAt(authorization[1], 1, "Bearer ")
       THEN Some(SubSeq(authorization[1], 8, Len(authorization[1])))
  ELSE authorization

\* an optional string is absent: undefined or empty
Absent(v) == v = Null \/ v = Some("")

\* no session token; no x-api-key header, or one that differs from
\* AUTO_PUBLISH_API_KEY; no bearer token, or one that differs from CRON_SECRET
NotAuthorized(req) ==
  /\ Absent(req.session)
  /\ Absent(req.apiKey) \/ req.apiKey # req.expectedKey
  /\ Absent(PresentedToken(req.authorization))
       \/ PresentedToken(req.authorization) # req.cronSecret

\* C26: a GET request that is not authorized is answered with 401 at once:
\* the sheet is not read, publishRow is not called, the sheet and the posts
\* stay as they are; and whenever the answer is 401, the handler has made no
\* call
C26_UnauthorizedDoesNothing ==
  /\ [][(getPhase = "called" /\ NotAuthorized(request)) =>
          (/\ getPhase' = "responded"
           /\ response'.status = 401
           /\ sheetReads' = 0
           /\ publishPhase' = "idle"
           /\ UNCHANGED <<sheet, posts>>)]_vars
  /\ [](response.status = 401 =>
          (/\ getPhase = "responded"
           /\ sheetReads = 0
           /\ publishPhase = "idle"
           /\ createPostCalls = 0
           /\ updatePostCalls = 0
           /\ updateRowCalls = 0))

\* the second request carries an API key and a bearer token while neither
\* AUTO_PUBLISH_API_KEY nor CRON_SECRET is set; the sheet has a ready row
C26_Witness ==
  /\ getPhase = "responded"
  /\ runs = 2
  /\ request = [session |-> Null, apiKey |-> Some("k1"), expectedKey |-> Null,
                authorization |-> Some("Bearer s1"), cronSecret |-> Null]
  /\ response.status = 401
  /\ sheet = <<ReadyRow>>
  /\ posts = <<>>
  /\ sheetReads = 0

\* the row publishRow was called with, as the sheet holds it now
SheetRow == sheet[row.rowIndex - 1]

\* the row as it was when publishRow was called, with status Posted and
\* the post id
PostedColumns ==
  [Columns(row) EXCEPT !.status = "Posted", !.wordpressId = ToString(postId)]

\* C27: the row of the sheet is written only after createPost or updatePost
\* has returned success with a post id, and then holds the status Posted and
\* that id; when publishRow returns a failure the row is as it was; a row
\* that carries a WordPress id is never handed to createPost, and is updated
\* through updatePost under its id
C27_SheetWrittenAfterPost ==
  publishPhase # "idle" =>
    /\ updateRowCalls > 0 => (postId # 0 /\ createPostCalls + updatePostCalls = 1)
    /\ SheetRow # Columns(row) =>
         (/\ SheetRow = PostedColumns
          /\ updateRowCalls = 1
          /\ publishPhase = "returned"
          /\ success)
    /\ (publishPhase = "returned" /\ ~success) => SheetRow = Columns(row)
    /\ row.wordpressId = "17" =>
         (/\ createPostCalls = 0
          /\ postId \in {0, 17}
          /\ success => updatePostCalls = 1)

\* a row with the WordPress id 17 is published: post 17 is updated, the row
\* is written
C27_Witness ==
  /\ publishPhase = "returned"
  /\ success
  /\ row.wordpressId = "17"
  /\ createPostCalls = 0
  /\ updatePostCalls = 1
  /\ postId = 17
  /\ SheetRow.status = "Posted"
  /\ SheetRow.wordpressId = "17"
  /\ posts = <<>>

\* the posts created for the row of number r
PostsOf(r) == {k \in 1..Len(posts) : posts[k] = r}

\* C28: whatever requests have been handled, for every row of the sheet at
\* most one post has been created
C28_OnePostPerRow ==
  \A k \in 1..Len(sheet) : Cardinality(PostsOf(k + 1)) <= 1

\* a status is ready: without regard to case and white space it is one of
\* ready to post, ready, publish
ReadyStatus(st) == WithoutWs(ToLower(st)) \in {"readytopost", "ready", "publish"}

\* the numbers of the rows that were ready when the sheet was read, in the
\* order of the sheet
RECURSIVE ReadyNumbers(_)
ReadyNumbers(all) ==
  IF all = <<>> THEN <<>>
  ELSE (IF ReadyStatus(Head(all).status) THEN <<Head(all).rowIndex>> ELSE <<>>)
         \o ReadyNumbers(Tail(all))

\* the rows the results are about, in the order of the results
ResultRows == [k \in 1..Len(results) |-> results[k].row]

----------------------------------------------------------------------------
(* POST /api/documents and POST /api/publish: a document without content *)

\* the stored document of the request of POST /api/documents
StoredDocuments == {d \in processedDocuments : d.id = docRequest.documentId}

\* C25: when getDocumentContent or the conversion fails in POST
\* /api/documents, the request is answered with success and the document is
\* stored with status processed and empty content; and when that stored
\* document is then posted to /api/publish by a signed-in user, it is not
\* turned down: the answer is the one of WordPress
C25_PublishWithoutContent ==
  (docPhase = "responded" /\ driveError) =>
    /\ docResponse = 200
    /\ StoredDocuments # {}
    /\ \A d \in StoredDocuments : d.status = "processed" /\ d.content = ""
    /\ (/\ pubPhase = "responded"
        /\ pubRequest.session # Null
        /\ pubRequest.document \in StoredDocuments)
         => (pubResponse.status # 400 /\ pubResponse.error # "Document must be processed before publishing")

----------------------------------------------------------------------------
(* Calls made side by side do not interact *)

\* what a call of these arguments returns when no other call is made: the
\* value, or none when it throws
ResultAlone(input) ==
  IF input.kind = "cleanHtml" THEN Some(cleanHtml(input.text))
  ELSE IF input.kind = "extractTitleFromContent" THEN Some(extractTitleFromContent(input.text))
  ELSE IF input.mimeType \in WordTypes
       THEN (IF input.delivers.ok THEN Some(cleanHtml(input.delivers.value)) ELSE Null)
  ELSE IF input.mimeType = PdfType
       THEN (IF input.imports /\ input.delivers.ok THEN Some(input.delivers.value) ELSE Null)
  ELSE IF input.mimeType \in MarkdownTypes THEN Some(processMarkdown(input.text))
  ELSE Null

\* what it throws when no other call is made, "" when it returns
ErrorAlone(input) ==
  IF input.kind # "processDocument" THEN ""
  ELSE IF input.mimeType \in WordTypes
       THEN (IF input.delivers.ok THEN "" ELSE input.delivers.value)
  ELSE IF input.mimeType = PdfType
       THEN (IF ~input.imports THEN "Cannot find module 'pdf-parse'"
             ELSE IF input.delivers.ok THEN "" ELSE input.delivers.value)
  ELSE IF input.mimeType \in MarkdownTypes THEN ""
  ELSE "Unsupported file type: " \o input.mimeType

\* C21: however the calls made side by side take turns at their awaits,
\* each call that has ended has returned or thrown what it returns or throws
\* when it is made alone
C21_CallsDoNotInteract ==
  \A i \in DOMAIN calls :
    /\ calls[i].phase = "returned" =>
         (calls[i].result = ResultAlone(calls[i].input) /\ calls[i].result # Null)
    /\ calls[i].phase = "thrown" =>
         (calls[i].error = ErrorAlone(calls[i].input) /\ calls[i].error # "")

\* two calls for Word documents: the second went on while the first was
\* suspended, and has returned its own document; the first has settled with
\* a rejection and not gone on yet
C21_Witness ==
  /\ calls[1].input.fileName = "b.doc"
  /\ calls[1].phase = "convertToHtml"
  /\ calls[1].resolved = Some(Rejects("not a valid file"))
  /\ calls[2].input.fileName = "a.doc"
  /\ calls[2].phase = "returned"
  /\ calls[2].interleaved
  /\ calls[2].result = Some("<p>Body text</p>")

====
